---- MODULE Spec2Model ----
(***************************************************************************)
(* Model of the auto-futures runtime pipeline: the Order Store             *)
(* (order_store.py), the Stream Cache and WebSocket callbacks              *)
(* (ws_cache.py, ws_streams.py), the trading cycle's precheck              *)
(* (auto_future_trader.py) and the trigger loop (service_runner.py).       *)
(*                                                                         *)
(* Python None is modelled by NoneNum for numeric fields and by NoneStr    *)
(* for string fields.  Objects with identity (OrderTracker) live in a      *)
(* heap indexed by reference; the store's dict maps order ids to           *)
(* references.                                                             *)
(***************************************************************************)
EXTENDS Integers, Sequences, FiniteSets, TLC

NoneNum == -1
NoneStr == "None"

(***************************************************************************)
(* Bounds of the Order Store model.                                        *)
(***************************************************************************)
\* Largest timeout, in polling ticks, passed to a wait.
MaxTimeout == 1
\* Number of OrderTracker objects the heap can hold.
MaxTrackers == 4

\* Bounds of the trigger-loop model: seconds on the clock, events the
\* streams emit, and the capacity standing for Queue(maxsize=4000).
MaxTime == 4
MaxEmits == 3
QueueMax == 2

\* Order ids delivered or registered.
OrderIds == {1, 2}

VARIABLES
    heap,       \* reference -> OrderTracker object
    orders,     \* OrderStore._orders: order id -> reference
    cyPc,       \* cycle thread: "idle", "wut_poll" (order_store.py:188-193), "wait" (Event.wait)
    cyId,       \* cycle thread: order id of the call in progress
    cyRef,      \* cycle thread: tracker reference the wait is blocked on
    cyLeft,     \* cycle thread: ticks left before the timeout of the call in progress
    cyRet,      \* cycle thread: result of the last completed call
    returned,   \* history: order id -> references returned by register/get
    stored,     \* history: order id -> references ever stored in _orders under the id
    regs,       \* history: number of register calls for ObsId (saturating at 2)
    firstBy,    \* history: who created the tracker of ObsId ("none", "register", "event")
    obsLast,    \* history: last trade-update payload applied for ObsId (event-stream spec)
    obsRepeat,  \* history: the last application for ObsId repeated the previous terminal payload
    obsZMax,    \* history: largest cumulative quantity z delivered so far for ObsId
    obsZLower,  \* history: an event with z below obsZMax has been applied for ObsId
    obsTick,    \* history: flips at every trade update applied for ObsId
    cacheSet,         \* ws_cache._GLOBAL is a WsCache (set by run_service)
    mark_price,       \* WsCache.mark_price
    last_mark_ts,     \* WsCache.last_mark_ts, in milliseconds
    last_kline_close, \* WsCache.last_kline_close
    wsPc,             \* subscriber thread: "idle", or "set_mark_ts" inside WsCache.set_mark
    wsTs,             \* subscriber thread: the ts_ms argument of the set_mark in progress
    cPc,              \* trading cycle: the phase run_once is in
    rdMark,           \* trading cycle: local `mark`
    rdKbar,           \* trading cycle: local `kbar`
    decision,         \* trading cycle: local `decision`
    confidence,       \* trading cycle: local `confidence`, in tenths
    traderState,      \* status file: trader.state
    traderReason,     \* status file: trader.reason
    cycleEnd,         \* how the last run_once call ended: "none", "returned", "raised"
    advCalls,         \* advisory calls made by the current run_once call
    ordersSent,       \* orders emitted by the current run_once call
    gotMark,          \* history: a mark-price update has been stored in the cache
    gotKline,         \* history: a closed 1m candle has been stored in the cache
    lacking,          \* history: the cache has lacked data ever since run_once was invoked
    markMaxTs,        \* history: largest event time of the mark updates stored
    markMaxVal,       \* history: price of the stored mark update with that event time
    trigger,          \* run_service: LOOP_TRIGGER
    interval,         \* run_service: LOOP_INTERVAL_SEC
    cooldown,         \* run_service: LOOP_COOLDOWN_SEC
    backoff_m,        \* run_service: LOOP_BACKOFF_MAX_SEC
    now,              \* time.time(), in seconds
    last_run,         \* run_service: last_run
    backoff,          \* run_service: backoff
    lPc,              \* loop thread: "top", "recv", "cycle", "sleep", "cleanup", "stopped"
    wakeAt,           \* loop thread: when the time.sleep(backoff) in progress ends
    stopEv,           \* _STOP
    evt_q,            \* the event queue between the callbacks and the loop
    ev_count,         \* FuturesWS._ev_count
    ev_drop,          \* FuturesWS._ev_drop
    mp_hist,          \* VolatilityDetector._mp_hist
    vol_hist,         \* VolatilityDetector._vol_hist
    mark_cnt,         \* run_service: mark_cnt
    kline_cnt,        \* run_service: kline_cnt
    last_stat,        \* run_service: last_stat
    inCycle,          \* run_once_cb calls that have neither returned nor raised
    lastStart,        \* history: when the last cycle was started
    nStarts,          \* history: cycles started
    failStreak,       \* history: cycles that raised since the last one that returned
    svcState,         \* status file: service.state
    wsStopAsked,      \* FuturesWS.stop() has been called
    startsAtStop,     \* history: cycles started when _STOP was set
    dryRun,           \* DRY_RUN
    dualSide,         \* exchange: dualSidePosition, the position mode of the account
    hedge,            \* run_once: local `hedge` (dual-side position mode)
    src,              \* run_once: local `src`, the input built for the advisor
    snap,             \* run_once: local `snap`, the result of _safe_snapshot
    sinkFile,         \* status_store: the content of status.json
    sinkLock,         \* status_store: the holder of _MEM_LOCK and the file lock
    wPc,              \* status_store: the position of each writer in its call
    wOp,              \* status_store: the call each writer is making
    wData,            \* status_store: local `data` of each writer
    wTmp,             \* status_store: the temporary file of each writer
    wDone,            \* status_store: calls completed by each writer
    applied,          \* history: the calls in the order of their os.replace
    histList,         \* status_store: events, orders, ai history, close history
    histKind,         \* the list a behaviour appends to
    histNext,         \* the number of appends made to it
    csOrders,         \* exchange: the open orders cancel_stale_protection_orders sees
    csIn,             \* cancel_stale_protection_orders: hedge_mode, acct_snapshot, dry_run
    dMp,              \* VolatilityDetector._mp_hist: <<ts, price>> samples
    dVol,             \* VolatilityDetector._vol_hist
    dVolAll,          \* every volume on_kline has recorded, oldest first
    dLookback,        \* the vol_lookback the detector was built with
    dClock,           \* time.time() of the detector's process, in seconds
    dCalls,           \* calls of on_mark / on_kline made so far
    dLast,            \* the last call: payload, history before it, result
    frLast,           \* FuturesWS: the last frame a stream callback was called with
    stData,           \* status_store: the sections of status.json and last_update_ts
    stPrev,           \* the content before the last update_status call
    stCall,           \* the last update_status call: number, section, payload
    stEver,           \* per section, the keys update_status has written so far
    wsStart,          \* run_service: how the construction and start of FuturesWS ended
    ws_instance,      \* run_service: ws_instance is set
    detector,         \* run_service: a VolatilityDetector was created
    csOut,            \* cancel_stale_protection_orders: the returned list, and how it ran
    aiConfEnv,        \* AI_CONF_THRESHOLD, in tenths
    exPos,            \* exchange: position quantity of the symbol per side
    exOrders,         \* exchange: the orders it has accepted; the order id is the index
    cyStore,          \* the OrderStore run_once creates: order id -> tracker
    wsStore,          \* the OrderStore FuturesWS creates: order id -> tracker
    advice,           \* the advice returned to the current or the last run_once call
    acct,             \* run_once: open positions of local `acct`, per side
    qty,              \* run_once: local `qty`
    todo,             \* run_once: positions the flat loop has still to visit
    curOid,           \* run_once: order id being confirmed
    curKind,          \* run_once: which order is being confirmed
    res,              \* run_once: local `res`, the fill summary
    filled_qty,       \* run_once: local `filled_qty`
    tpIdx,            \* run_once: index of the take-profit level to place next
    pollLeft,         \* poll_fill_backup: polls left before the deadline
    sent,             \* history: orders run_once has handed to place_order, in order
    trace             \* history: order submissions, confirmations and cleanups, in order

storeVars == <<heap, orders, cyPc, cyId, cyRef, cyLeft, cyRet,
               returned, stored, regs, firstBy>>
obsVars == <<obsLast, obsRepeat, obsZMax, obsZLower, obsTick>>
cacheVars == <<cacheSet, mark_price, last_mark_ts, last_kline_close, wsPc, wsTs,
               gotMark, gotKline, markMaxTs, markMaxVal>>
cycleVars == <<cPc, rdMark, rdKbar, decision, confidence, traderState, traderReason, cycleEnd,
               advCalls, ordersSent, lacking>>
loopVars == <<trigger, interval, cooldown, backoff_m, now, last_run, backoff, lPc,
              wakeAt, stopEv, evt_q, ev_count, ev_drop, mp_hist, vol_hist,
              mark_cnt, kline_cnt, last_stat, inCycle, lastStart, nStarts,
              failStreak>>
stopVars == <<svcState, wsStopAsked, startsAtStop>>
sinkVars == <<sinkFile, sinkLock, wPc, wOp, wData, wTmp, wDone, applied>>
histVars == <<histList, histKind, histNext>>
cancelVars == <<csOrders, csIn, csOut>>
detVars == <<dMp, dVol, dVolAll, dLookback, dClock, dCalls, dLast>>
frVars == <<frLast>>
statVars == <<stData, stPrev, stCall, stEver>>
bootVars == <<wsStart, ws_instance, detector>>
auxVars == <<cancelVars, detVars, frVars, statVars, bootVars>>
cfgVars == <<dryRun, dualSide, aiConfEnv, sinkVars, histVars, auxVars>>
exVars == <<exPos, exOrders>>
osVars == <<cyStore, wsStore>>
tlVars == <<hedge, src, snap, acct, qty, todo, curOid, curKind, res, filled_qty, tpIdx, pollLeft>>
tradeVars == <<cfgVars, exVars, osVars, advice, tlVars, sent, trace>>
svcVars == <<cacheVars, cycleVars, loopVars, stopVars, tradeVars>>
vars == <<storeVars, obsVars, svcVars>>

(***************************************************************************)
(* order_store.py                                                          *)
(***************************************************************************)
TERMINAL_STATUSES == {"FILLED", "CANCELED", "REJECTED", "EXPIRED"}

\* str.upper() on the status strings that occur.
Upper(s) ==
    CASE s = "filled" -> "FILLED"
      [] s = "order_trade_update" -> "ORDER_TRADE_UPDATE"
      [] s = "executionReport" -> "EXECUTIONREPORT"
      [] OTHER -> s

\* Python truthiness of an optional number / string.
TruthyNum(x) == x # NoneNum /\ x # 0
TruthyStr(s) == s # NoneStr /\ s # ""

\* Methods defined on class OrderStore (attribute lookup of self.<name>).
OrderStoreAttrsWithSafeFloat ==
    {"register", "get", "remove", "update_from_user_event",
     "wait_until_terminal", "list_open", "_merge_o_fields", "_safe_float"}
OrderStoreAttrs ==
    {"register", "get", "remove", "update_from_user_event",
     "wait_until_terminal", "list_open", "_merge_o_fields"}

\* Methods defined on class OrderTracker.
OrderTrackerAttrs == {"is_terminal", "set_terminal", "wait", "snapshot"}

\* OrderTracker(symbol, order_id, side=...) : the dataclass defaults.
NewTracker(order_id, side) ==
    [order_id |-> order_id, side |-> side, status |-> "NEW",
     executed_qty |-> 0, update_time |-> NoneNum,
     event |-> FALSE, sigs |-> 0]

is_terminal(ot) == ot.status \in TERMINAL_STATUSES

\* Event.set(): the flag becomes true; sigs counts unset -> set transitions.
set_terminal(ot) ==
    [ot EXCEPT !.event = TRUE, !.sigs = IF ot.event THEN @ ELSE @ + 1]

\* The float parse the merge asks for (None, '' and NaN give None).
NaNTok == -2
SafeFloat(x) == IF x \in {NoneNum, NaNTok} THEN NoneNum ELSE x

\* _merge_o_fields lines 207-217: status and side are merged with `or`.
MergeHead(ot, o) ==
    [ot EXCEPT !.status = Upper(IF TruthyStr(o.X) THEN o.X ELSE ot.status),
               !.side = IF TruthyStr(o.S) THEN o.S ELSE ot.side]

\* _merge_o_fields lines 219-248: quantities, update time, completion signal.
MergeTail(ot, o, payload) ==
    LET z == SafeFloat(o.z)
        t1 == IF z # NoneNum THEN [ot EXCEPT !.executed_qty = z] ELSE ot
        t2 == [t1 EXCEPT !.update_time =
                  IF TruthyNum(payload.E) THEN payload.E
                  ELSE IF TruthyNum(payload.T) THEN payload.T ELSE @]
    IN IF is_terminal(t2) THEN set_terminal(t2) ELSE t2

\* _merge_o_fields: the first self._safe_float lookup (line 220) raises
\* AttributeError when the class has no such method; the assignments made
\* before it stay.
MergeOFields(ot, o, payload) ==
    IF "_safe_float" \in OrderStoreAttrs
    THEN [raised |-> FALSE, ot |-> MergeTail(MergeHead(ot, o), o, payload)]
    ELSE [raised |-> TRUE, ot |-> MergeHead(ot, o)]

\* The order whose history the history variables record.
ObsId == CHOOSE i \in OrderIds : \A j \in OrderIds : i <= j

\* Trade-update payloads the user-data stream can deliver.
StatusInputs == {NoneStr, "NEW", "PARTIALLY_FILLED", "FILLED", "filled", "CANCELED"}
SideInputs == {NoneStr, "SELL"}
ZInputs == {NoneNum, 1, 2}
TimeInputs == {<<7, NoneNum>>, <<NoneNum, 8>>}

OrderPayloads ==
    { [e |-> "ORDER_TRADE_UPDATE", E |-> t[1], T |-> t[2],
       o |-> [i |-> i, X |-> x, S |-> s, z |-> z]] :
         t \in TimeInputs, i \in OrderIds, x \in StatusInputs,
         s \in SideInputs, z \in ZInputs }
OtherPayloads ==
    { [e |-> k, E |-> 7, T |-> NoneNum,
       o |-> [i |-> i, X |-> "FILLED", S |-> NoneStr, z |-> 1]] :
         k \in {"ACCOUNT_UPDATE", "executionReport"}, i \in {1} }
    \cup { [e |-> "ORDER_TRADE_UPDATE", E |-> 7, T |-> NoneNum,
            o |-> [i |-> NoneNum, X |-> "FILLED", S |-> NoneStr, z |-> 1]] }
Payloads == OrderPayloads \cup OtherPayloads
\* The payloads that differ in order id, event kind and status only.
StorePayloads ==
    { p \in Payloads : p.E = 7 /\ p.o.z = 1 /\ p.o.S = NoneStr }
\* Every payload of ObsId, and two payloads for each other order.
EventPayloads ==
    { p \in Payloads :
        p.o.i = ObsId \/ (p \in StorePayloads /\ p.o.X \in {"NEW", "FILLED"}) }

NextRef == Cardinality(DOMAIN heap) + 1

\* register line 98 / update_from_user_event line 154: self._orders.get(order_id);
\* 0 stands for None.
RegisterLookupMiss(order_id) == 0
RegisterLookup(order_id) ==
    IF order_id \in DOMAIN orders THEN orders[order_id] ELSE 0

EventLookupMiss(order_id) == 0
EventLookup(order_id) ==
    IF order_id \in DOMAIN orders THEN orders[order_id] ELSE 0

Bump(n) == IF n < 2 THEN n + 1 ELSE n

NoRet == [op |-> "none", kind |-> "none", term |-> FALSE]

\* OrderStore.register: under the store lock, create the tracker only if absent.
Register(order_id, side) ==
    /\ cyPc = "idle"
    /\ LET found == RegisterLookup(order_id)
           ref == IF found = 0 THEN NextRef ELSE found
       IN /\ found = 0 => NextRef <= MaxTrackers
          /\ heap' = IF found = 0
                     THEN (ref :> NewTracker(order_id, side)) @@ heap ELSE heap
          /\ orders' = IF found = 0 THEN (order_id :> ref) @@ orders ELSE orders
          /\ cyRet' = [op |-> "register", kind |-> "ref", term |-> FALSE]
          /\ returned' = [returned EXCEPT ![order_id] = @ \cup {ref}]
          /\ stored' = IF found = 0
                       THEN [stored EXCEPT ![order_id] = @ \cup {ref}] ELSE stored
          /\ regs' = IF order_id = ObsId THEN Bump(regs) ELSE regs
          /\ firstBy' = IF order_id = ObsId /\ firstBy = "none"
                        THEN "register" ELSE firstBy
    /\ UNCHANGED <<cyPc, cyId, cyRef, cyLeft, obsVars>>
    /\ UNCHANGED svcVars

\* OrderStore.get.
Get(order_id) ==
    /\ cyPc = "idle"
    /\ LET found == IF order_id \in DOMAIN orders THEN orders[order_id] ELSE 0
       IN /\ cyRet' = [op |-> "get", kind |-> IF found = 0 THEN "none" ELSE "ref", term |-> FALSE]
          /\ returned' = IF found = 0 THEN returned
                         ELSE [returned EXCEPT ![order_id] = @ \cup {found}]
    /\ UNCHANGED <<heap, orders, cyPc, cyId, cyRef, cyLeft,
                   stored, regs, firstBy, obsVars>>
    /\ UNCHANGED svcVars

\* The result a finished wait hands back: the snapshot when ok, else None.
WaitResult(op, ref, ok) ==
    [op |-> op, kind |-> IF ok THEN "snapshot" ELSE "none", term |-> is_terminal(heap[ref])]

\* wait_until_terminal line 196: ot.wait_until_terminal(timeout=timeout) is an
\* attribute lookup on the OrderTracker; it raises AttributeError when the
\* class has no such method.
WutOnTracker(ref, timeout) ==
    IF "wait_until_terminal" \in OrderTrackerAttrs
    THEN /\ cyPc' = "wait"
         /\ cyRef' = ref
         /\ cyLeft' = timeout
         /\ cyRet' = [op |-> "wait_until_terminal", kind |-> "pending", term |-> FALSE]
    ELSE /\ cyPc' = "idle"
         /\ cyRef' = 0
         /\ cyLeft' = 0
         /\ cyRet' = [op |-> "wait_until_terminal", kind |-> "AttributeError", term |-> is_terminal(heap[ref])]

\* OrderStore.wait_until_terminal lines 182-188: look the tracker up; when it
\* is absent start polling while the timeout (None counts as 0) has not elapsed.
WaitUntilTerminal(order_id, timeout) ==
    /\ cyPc = "idle"
    /\ cyId' = order_id
    /\ IF order_id \in DOMAIN orders
       THEN WutOnTracker(orders[order_id], timeout)
       ELSE IF timeout > 0
            THEN /\ cyPc' = "wut_poll"
                 /\ cyLeft' = timeout
                 /\ cyRef' = 0
                 /\ cyRet' = [op |-> "wait_until_terminal", kind |-> "pending", term |-> FALSE]
            ELSE /\ cyPc' = "idle"
                 /\ cyLeft' = 0
                 /\ cyRef' = 0
                 /\ cyRet' = [op |-> "wait_until_terminal", kind |-> "none", term |-> FALSE]
    /\ UNCHANGED <<heap, orders, returned, stored, regs, firstBy, obsVars>>
    /\ UNCHANGED svcVars

\* wait_until_terminal lines 188-195: one sleep(0.05) and one lookup.
WutPoll ==
    /\ cyPc = "wut_poll"
    /\ IF cyId \in DOMAIN orders
       THEN WutOnTracker(orders[cyId], cyLeft)
       ELSE IF cyLeft > 1
            THEN /\ cyLeft' = cyLeft - 1
                 /\ UNCHANGED <<cyPc, cyRef, cyRet>>
            ELSE /\ cyPc' = "idle"
                 /\ cyLeft' = 0
                 /\ cyRef' = 0
                 /\ cyRet' = [op |-> "wait_until_terminal", kind |-> "none", term |-> FALSE]
    /\ UNCHANGED <<heap, orders, cyId, returned, stored, regs, firstBy, obsVars>>
    /\ UNCHANGED svcVars

\* auto_future_trader.wait_fill_with_ws lines 210-213: get the tracker, then
\* block on tr.wait(timeout).
WaitFillWithWs(order_id, timeout) ==
    /\ cyPc = "idle"
    /\ cyId' = order_id
    /\ IF order_id \in DOMAIN orders
       THEN /\ cyPc' = "wait"
            /\ cyRef' = orders[order_id]
            /\ cyLeft' = timeout
            /\ cyRet' = [op |-> "wait_fill_with_ws", kind |-> "pending",
                         term |-> FALSE]
            /\ returned' = [returned EXCEPT ![order_id] = @ \cup {orders[order_id]}]
       ELSE /\ cyPc' = "idle"
            /\ cyRef' = 0
            /\ cyLeft' = 0
            /\ cyRet' = [op |-> "wait_fill_with_ws", kind |-> "none", term |-> FALSE]
            /\ UNCHANGED returned
    /\ UNCHANGED <<heap, orders, stored, regs, firstBy, obsVars>>
    /\ UNCHANGED svcVars

\* OrderTracker.wait = Event.wait(timeout): returns True as soon as the flag
\* is set, False once the timeout has elapsed.
WaitStep ==
    /\ cyPc = "wait"
    /\ IF heap[cyRef].event
       THEN /\ cyPc' = "idle"
            /\ cyRet' = WaitResult(cyRet.op, cyRef, TRUE)
            /\ cyLeft' = 0
            /\ cyRef' = 0
       ELSE IF cyLeft = 0
            THEN /\ cyPc' = "idle"
                 /\ cyRet' = WaitResult(cyRet.op, cyRef, FALSE)
                 /\ cyLeft' = 0
                 /\ cyRef' = 0
            ELSE /\ cyLeft' = cyLeft - 1
                 /\ UNCHANGED <<cyPc, cyRet, cyRef>>
    /\ UNCHANGED <<heap, orders, cyId, returned, stored, regs, firstBy, obsVars>>
    /\ UNCHANGED svcVars

NoPayload == [e |-> NoneStr, E |-> NoneNum, T |-> NoneNum,
              o |-> [i |-> NoneNum, X |-> NoneStr, S |-> NoneStr, z |-> NoneNum]]

Max(a, b) == IF a >= b THEN a ELSE b

\* History of the payloads applied for ObsId.
Observe(payload) ==
    LET z == SafeFloat(payload.o.z) IN
    /\ obsLast' = payload
    /\ obsRepeat' = (obsLast = payload /\ Upper(payload.o.X) \in TERMINAL_STATUSES)
    /\ obsZMax' = Max(obsZMax, z)
    /\ obsZLower' = (obsZLower \/ (z # NoneNum /\ z < obsZMax))
    /\ obsTick' = ~obsTick

\* OrderStore.update_from_user_event, called by the WebSocket subscriber.
\* The EXECUTUIONREPORT branch (line 162) matches no event kind the exchange
\* sends: "executionReport".upper() differs from it.
UpdateFromUserEvent(payload, track) ==
    LET etype == Upper(IF TruthyStr(payload.e) THEN payload.e ELSE "")
        o == payload.o
    IN
    /\ IF etype = "ORDER_TRADE_UPDATE" /\ o.i # NoneNum
       THEN LET found == EventLookup(o.i)
                ref == IF found = 0 THEN NextRef ELSE found
                base == IF found = 0 THEN NewTracker(o.i, NoneStr) ELSE heap[found]
                m == MergeOFields(base, o, payload)
            IN /\ found = 0 => NextRef <= MaxTrackers
               /\ heap' = (ref :> m.ot) @@ heap
               /\ orders' = IF found = 0 THEN (o.i :> ref) @@ orders ELSE orders
               /\ stored' = IF found = 0
                            THEN [stored EXCEPT ![o.i] = @ \cup {ref}] ELSE stored
               /\ firstBy' = IF o.i = ObsId /\ firstBy = "none"
                             THEN "event" ELSE firstBy
               /\ IF track /\ o.i = ObsId
                  THEN Observe(payload)
                  ELSE UNCHANGED obsVars
       ELSE UNCHANGED <<heap, orders, stored, firstBy, obsVars>>
    /\ UNCHANGED <<cyPc, cyId, cyRef, cyLeft, cyRet, returned, regs>>
    /\ UNCHANGED svcVars

(***************************************************************************)
(* ws_cache.py, ws_streams.py: the Stream Cache and its two writers.       *)
(***************************************************************************)
SYMBOL == "ETHUSDT"

\* A Python dict is a function from its keys; {} has no key.
EmptyDict == [x \in {} |-> NoneNum]

\* dict.get(key) for a numeric / string field: None when the key is absent.
GetNum(m, key) == IF key \in DOMAIN m THEN m[key] ELSE NoneNum
GetStr(m, key) == IF key \in DOMAIN m THEN m[key] ELSE NoneStr

\* FuturesWS._unwrap: a combined-stream frame carries the event under "data".
Unwrap(msg) == IF "data" \in DOMAIN msg THEN msg.data ELSE msg

\* str.upper() on the symbol strings that occur.
UpperSym(s) ==
    CASE s = "ethusdt" -> "ETHUSDT"
      [] s = "btcusdt" -> "BTCUSDT"
      [] OTHER -> s

\* is_closed = (x is True) or (str(x).lower() == "true"); the raw flag is
\* given as its Python repr.
IsClosed(x) == x \in {"True", "'true'", "'TRUE'"}

\* The payload dict on_kline builds for the cache (keys i, s, c, closed of
\* lines 311-322; the other OHLCV keys are copied the same way).
KlinePayload(k, sym) ==
    [i |-> GetStr(k, "i"), s |-> sym, c |-> GetNum(k, "c"), closed |-> TRUE]

\* run_once line 524: last_close = safe_float(kbar.get("c"), None) if kbar else None
LastClose(kbar) ==
    IF DOMAIN kbar = {} THEN NoneNum ELSE SafeFloat(GetNum(kbar, "c"))

\* What the cache lacks: a mark price, a mark timestamp or a last closed candle.
Lacks(mp, ts, kb) == mp = NoneNum \/ ts <= 0 \/ DOMAIN kb = {}

\* WsCache.set_mark, first assignment (line 34), reached from on_mark_price
\* when the cache is set, the symbol is the configured one and the price
\* parses.  last_mark_ts is kept in milliseconds: dividing by 1000.0
\* (line 35) preserves order and zero.
OnMarkPrice(msg, track) ==
    LET m == Unwrap(msg)
        sym == GetStr(m, "s")
        ts == IF TruthyNum(GetNum(m, "E")) THEN GetNum(m, "E") ELSE 0
        p == SafeFloat(IF TruthyNum(GetNum(m, "p")) THEN GetNum(m, "p") ELSE NoneNum)
    IN  /\ cacheSet
        /\ wsPc = "idle"
        /\ IF sym = SYMBOL /\ p # NoneNum
           THEN /\ mark_price' = p
                /\ wsPc' = "set_mark_ts"
                /\ wsTs' = ts
                /\ gotMark' = TRUE
                /\ IF track /\ ts >= markMaxTs
                   THEN markMaxTs' = ts /\ markMaxVal' = p
                   ELSE UNCHANGED <<markMaxTs, markMaxVal>>
           ELSE UNCHANGED <<mark_price, wsPc, wsTs, gotMark, markMaxTs, markMaxVal>>
        /\ lacking' = (lacking /\ Lacks(mark_price', last_mark_ts, last_kline_close))
        /\ UNCHANGED <<cacheSet, last_mark_ts, last_kline_close, gotKline>>
        /\ UNCHANGED <<cPc, rdMark, rdKbar, decision, confidence, traderState,
                       traderReason, cycleEnd, advCalls, ordersSent>>
        /\ UNCHANGED <<storeVars, obsVars, stopVars, tradeVars, loopVars>>

\* WsCache.set_mark, second assignment (line 35).
SetMarkTs ==
    /\ wsPc = "set_mark_ts"
    /\ last_mark_ts' = wsTs
    /\ wsPc' = "idle"
    /\ wsTs' = 0
    /\ lacking' = (lacking /\ Lacks(mark_price, wsTs, last_kline_close))
    /\ UNCHANGED <<cacheSet, mark_price, last_kline_close, gotMark, gotKline,
                   markMaxTs, markMaxVal>>
    /\ UNCHANGED <<cPc, rdMark, rdKbar, decision, confidence, traderState,
                   traderReason, cycleEnd, advCalls, ordersSent>>
    /\ UNCHANGED <<storeVars, obsVars, stopVars, tradeVars, loopVars>>

\* FuturesWS.on_kline: symbol normalisation, then a closed 1m candle of the
\* configured symbol replaces last_kline_close.
OnKline(msg) ==
    LET m == Unwrap(msg)
        k == IF "k" \in DOMAIN m THEN m.k ELSE EmptyDict
        raw == IF GetStr(m, "e") = "continuous_kline"
               THEN GetStr(m, "ps")
               ELSE IF TruthyStr(GetStr(m, "s")) THEN GetStr(m, "s") ELSE GetStr(k, "s")
        sym == UpperSym(IF TruthyStr(raw) THEN raw ELSE "")
        k_interval == GetStr(k, "i")
    IN  /\ cacheSet
        /\ wsPc = "idle"
        /\ IF sym # "" /\ sym = UpperSym(SYMBOL) /\ k_interval = "1m"
              /\ IsClosed(GetStr(k, "x"))
           THEN /\ last_kline_close' = KlinePayload(k, sym)
                /\ gotKline' = TRUE
                /\ lacking' = (lacking /\ Lacks(mark_price, last_mark_ts,
                                                 KlinePayload(k, sym)))
           ELSE UNCHANGED <<last_kline_close, gotKline, lacking>>
        /\ UNCHANGED <<cacheSet, mark_price, last_mark_ts, wsPc, wsTs, gotMark,
                       markMaxTs, markMaxVal>>
        /\ UNCHANGED <<cPc, rdMark, rdKbar, decision, confidence, traderState,
                       traderReason, cycleEnd, advCalls, ordersSent>>
        /\ UNCHANGED <<storeVars, obsVars, stopVars, tradeVars, loopVars>>

\* Messages the mark-price and kline streams deliver.
SymInputs == {"ETHUSDT", "ethusdt", "BTCUSDT", NoneStr}
MarkEvents ==
    {[e |-> "markPriceUpdate", s |-> s, E |-> t, p |-> p] :
        s \in SymInputs, t \in {NoneNum, 1000, 2000, 3000}, p \in {NoneNum, 100, 101}}
MarkMsgs == MarkEvents \cup {[stream |-> "ethusdt@markPrice", data |-> m] : m \in MarkEvents}
KlineBars ==
    {[i |-> i, x |-> x, c |-> c] :
        i \in {"1m", "5m"}, x \in {"True", "False", "'true'"}, c \in {NoneNum, 100}}
KlineEvents ==
    {[e |-> "kline", s |-> s, k |-> k] : s \in SymInputs \ {NoneStr}, k \in KlineBars}
    \cup {[e |-> "kline", k |-> k @@ [s |-> "ETHUSDT"]] : k \in KlineBars}
    \cup {[e |-> "continuous_kline", ps |-> s, k |-> k] : s \in SymInputs, k \in KlineBars}
KlineMsgs == KlineEvents

\* Mark-price messages that carry their event time.
TimedMarkMsgs == {msg \in MarkMsgs : GetNum(Unwrap(msg), "E") # NoneNum}

\* The messages used where the cycle runs next to the subscriber.
CycleMarkMsgs ==
    {m \in MarkEvents : m.s \in {"ETHUSDT", "BTCUSDT"} /\ m.E \in {NoneNum, 1000} /\ m.p # 101}
CycleKlineMsgs ==
    {m \in KlineEvents : GetStr(m, "s") \in {"ethusdt", "BTCUSDT"} /\ m.k.x # "'true'"}

(***************************************************************************)
(* auto_future_trader.py: run_once, the trading cycle.                     *)
(***************************************************************************)
\* AI_CONF_THRESHOLD (default "0.5") in tenths, clamped to [0, 1].
AiConfThrEnv == 5
AiConfThr(env) == Max(0, IF env < 10 THEN env ELSE 10)

\* The confidence gate (line 636).
LowConfidenceOrZero(c, thr) == c # NoneNum /\ c < thr
LowConfidence(c, thr) == c # NoneNum /\ 0 < c /\ c < thr

\* The advice object: decision, confidence (tenths), position.size.contracts,
\* position.size.quote_value_usdt, position.size.leverage,
\* position.entry.order_type, position.stop_loss.price, the size_pct and
\* price of each take-profit level, and whether a trailing stop is given.
NoAdvice ==
    [got |-> FALSE, decision |-> NoneStr, confidence |-> NoneNum, contracts |-> 0,
     quote |-> NoneNum, leverage |-> 0, entry_type |-> "MARKET", sl |-> NoneNum, tps |-> <<>>,
     trail |-> FALSE]

\* market.mark_price of the input and the last 1m close it carries.
NoSrc == [mark_price |-> NoneNum, last_close |-> NoneNum]

\* An entry of the history of a cycle.
TraceEv(ev, kind, oid, st) == [ev |-> ev, kind |-> kind, oid |-> oid, st |-> st]

\* fetch_account_and_positions is called: by build_input_json
\* (input_builder.py:137), at line 625, and in the finally block (line 944).
AccountRead(tr, where) == Append(tr, TraceEv("account", where, 0, NoneStr))

\* Position quantities per side, and `res = None`.
NoPos == [long |-> 0, short |-> 0]
NoRes == [status |-> NoneStr, executed_qty |-> NoneNum, via |-> "none"]

\* LOT_SIZE stepSize, in quantity units.
StepSize == 1

\* round(): to the nearest integer, ties to the even one.
RoundDiv(n, d) ==
    LET q == n \div d
        r == n % d
    IN  IF 2 * r < d THEN q
        ELSE IF 2 * r > d THEN q + 1
        ELSE IF q % 2 = 0 THEN q ELSE q + 1

\* snap_qty of the quantity n/d.
SnapQtyFloor(n, d) == (n \div (d * StepSize)) * StepSize
SnapQty(n, d) == RoundDiv(n, d * StepSize) * StepSize

\* update_status("trader", payload): the payload is merged into the section,
\* so a key the payload does not carry keeps its previous value.
SetState(state, reason) ==
    /\ traderState' = state
    /\ traderReason' = IF reason = NoneStr THEN traderReason ELSE reason

\* The call ends: its locals are gone.
CycleEnds(how) ==
    /\ cycleEnd' = how
    /\ cPc' = "idle"
    /\ rdMark' = NoneNum
    /\ rdKbar' = EmptyDict
    /\ decision' = NoneStr
    /\ confidence' = NoneNum

\* run_once lines 385-397: the status is published as running.
CycleStart ==
    /\ cPc = "idle"
    /\ SetState("running", NoneStr)
    /\ cPc' = "setup"
    /\ cycleEnd' = "none"
    /\ advCalls' = 0
    /\ ordersSent' = 0
    /\ lacking' = (cacheSet /\ Lacks(mark_price, last_mark_ts, last_kline_close))
    /\ advice' = NoAdvice
    /\ hedge' = FALSE
    /\ src' = NoSrc
    /\ snap' = EmptyDict
    /\ acct' = NoPos
    /\ qty' = 0
    /\ todo' = <<>>
    /\ curOid' = 0
    /\ curKind' = NoneStr
    /\ res' = NoRes
    /\ filled_qty' = 0
    /\ tpIdx' = 0
    /\ pollLeft' = 0
    /\ sent' = <<>>
    /\ trace' = <<>>
    /\ UNCHANGED <<rdMark, rdKbar, decision, confidence>>
    /\ UNCHANGED <<cfgVars, exVars, osVars>>
    /\ UNCHANGED <<cacheVars, storeVars, obsVars, stopVars, loopVars>>

\* run_once lines 492-517, outside the try block: client creation and the
\* exchange-filter lookup may raise; is_hedge_mode (lines 109-116) answers
\* False when the position-mode query fails; a new OrderStore is created;
\* then the global cache is fetched.
CycleSetup ==
    /\ cPc = "setup"
    /\ \E ok \in BOOLEAN, modeOk \in BOOLEAN :
        /\ hedge' = (ok /\ modeOk /\ dualSide)
        /\ IF ~ok
           THEN /\ CycleEnds("raised")
                /\ UNCHANGED <<traderState, traderReason>>
           ELSE IF ~cacheSet
           THEN /\ SetState("skipped", "ws_cache_missing")
                /\ CycleEnds("returned")
           ELSE /\ cPc' = "read_mark"
                /\ UNCHANGED <<rdMark, rdKbar, decision, confidence, traderState,
                               traderReason, cycleEnd>>
    /\ cyStore' = EmptyDict
    /\ UNCHANGED <<advCalls, ordersSent, lacking>>
    /\ UNCHANGED <<src, snap, acct, qty, todo, curOid, curKind, res, filled_qty, tpIdx,
                   pollLeft>>
    /\ UNCHANGED <<cfgVars, exVars, wsStore, advice, sent, trace>>
    /\ UNCHANGED <<cacheVars, storeVars, obsVars, stopVars, loopVars>>

\* The attributes WsCache.__init__ (ws_cache.py:24-29) assigns.  The class
\* defines __init__ itself, so the dataclass decorator generates none, and
\* the default factories of `trades` and `orders` never run.
WsCacheAttrs == {"symbol", "_lock", "mark_price", "last_mark_ts", "last_kline_close"}

\* The attributes WsCache.snapshot (ws_cache.py:53-63) reads.
SnapshotReads == {"symbol", "mark_price", "last_mark_ts", "last_kline_close", "trades",
                  "orders"}

\* WsCache.snapshot: the record it builds; reading an attribute the object
\* does not have raises AttributeError.
SnapshotRaises == ~(SnapshotReads \subseteq WsCacheAttrs)

Snapshot ==
    [mark_price |-> mark_price, last_mark_ts |-> last_mark_ts,
     last_kline_close |-> last_kline_close]

\* _safe_snapshot (auto_future_trader.py:371-378): {} without a cache or when
\* snapshot raises.
SafeSnapshot == IF ~cacheSet \/ SnapshotRaises THEN EmptyDict ELSE Snapshot

\* run_once lines 520-521: snap = _safe_snapshot(cache), then
\* mark = cache.mark_price (read without the cache lock).
CycleReadMark ==
    /\ cPc = "read_mark"
    /\ snap' = SafeSnapshot
    /\ rdMark' = mark_price
    /\ cPc' = "read_kbar"
    /\ UNCHANGED <<rdKbar, decision, confidence, traderState, traderReason,
                   cycleEnd, advCalls, ordersSent, lacking>>
    /\ UNCHANGED <<hedge, src, acct, qty, todo, curOid, curKind, res, filled_qty, tpIdx,
                   pollLeft>>
    /\ UNCHANGED <<cfgVars, exVars, osVars, advice, sent, trace>>
    /\ UNCHANGED <<cacheVars, storeVars, obsVars, stopVars, loopVars>>

\* run_once line 522: kbar = cache.last_kline_close.
CycleReadKbar ==
    /\ cPc = "read_kbar"
    /\ rdKbar' = last_kline_close
    /\ cPc' = "precheck"
    /\ UNCHANGED <<rdMark, decision, confidence, traderState, traderReason,
                   cycleEnd, advCalls, ordersSent, lacking>>
    /\ UNCHANGED <<cacheVars, storeVars, obsVars, stopVars, tradeVars, loopVars>>

\* run_once line 535: the priming condition.
PrecheckSkips(mark, last_close, ts) ==
    mark = NoneNum \/ last_close = NoneNum \/ ts <= 0

\* run_once lines 535-545: skip while the cache is priming.
CyclePrecheck ==
    /\ cPc = "precheck"
    /\ IF PrecheckSkips(rdMark, LastClose(rdKbar), last_mark_ts)
       THEN /\ SetState("skipped", "ws_priming")
            /\ CycleEnds("returned")
       ELSE /\ cPc' = "advice"
            /\ UNCHANGED <<rdMark, rdKbar, decision, confidence, traderState,
                           traderReason, cycleEnd>>
    /\ UNCHANGED <<advCalls, ordersSent, lacking>>
    /\ UNCHANGED <<cacheVars, storeVars, obsVars, stopVars, tradeVars, loopVars>>

DecisionInputs == {"long", "flat", "hold"}
ConfInputs == {NoneNum, 0, 3, 8, 12}

\* build_input_json (input_builder.py:36-168): market.mark_price is the
\* mark price of the premium-index request; override_mark and
\* override_kline_close are not used, and no 1m close is put in the input.
BuildInput(rest_mark, override_mark, override_kline_close) ==
    [mark_price |-> rest_mark, last_close |-> NoneNum]

ValidDecisionAnyGiven(d) == d # NoneStr

\* Line 612: the decisions the cycle acts on.
ValidDecision(d) == d \in {"long", "short", "flat"}

\* run_once lines 547-622: input build, advisory call, decision validation.
\* An exception is handled at lines 925-940: state error is published and
\* the exception raised again; the finally block reads the account.  `a` is
\* the advice the advisor returns, `m` the mark price the REST request
\* returns.
CycleAdvise(a, m) ==
    /\ cPc = "advice"
    /\ \E out \in {"input_raises", "advice_raises", "ok"} :
            /\ advCalls' = IF out = "input_raises" THEN advCalls ELSE advCalls + 1
            /\ advice' = IF out = "ok" THEN a ELSE advice
            /\ src' = IF out = "input_raises" THEN src ELSE BuildInput(m, rdMark, rdKbar)
            /\ IF out # "ok"
               THEN /\ SetState("error", NoneStr)
                    /\ CycleEnds("raised")
                    /\ trace' = AccountRead(IF out = "input_raises" THEN trace
                                            ELSE AccountRead(trace, "input"), "finally")
               ELSE IF ~ValidDecision(a.decision)
               THEN /\ SetState("invalid", "invalid_decision")
                    /\ CycleEnds("returned")
                    /\ trace' = AccountRead(AccountRead(trace, "input"), "finally")
               ELSE /\ SetState("running", NoneStr)
                    /\ decision' = a.decision
                    /\ confidence' = a.confidence
                    /\ cPc' = "account"
                    /\ trace' = AccountRead(trace, "input")
                    /\ UNCHANGED <<rdMark, rdKbar, cycleEnd>>
    /\ UNCHANGED <<ordersSent, lacking>>
    /\ UNCHANGED <<hedge, snap, acct, qty, todo, curOid, curKind, res, filled_qty, tpIdx,
                   pollLeft>>
    /\ UNCHANGED <<cfgVars, exVars, osVars, sent>>
    /\ UNCHANGED <<cacheVars, storeVars, obsVars, stopVars, loopVars>>

\* run_once lines 577-669: account read, confidence gate, quantity check.
\* fetch_account_and_positions does not raise: a failed position query
\* yields no open positions (binance_conn.py:395-399).  ~ok stands for an
\* exception raised in these lines, such as an advice whose position is not
\* an object (line 581) or a failing status write.
\* Lines 651-658: the quantity is the contracts of the advice, or else its
\* quote value divided by the mark price of the input (market.mark_price and
\* market.last_price are the same premium-index value), or else 0; it is
\* then snapped to the step size.
ResolveQty(a, s) ==
    LET contracts == IF SafeFloat(a.contracts) = NoneNum THEN 0 ELSE a.contracts
        quote == IF SafeFloat(a.quote) = NoneNum THEN 0 ELSE a.quote
        last_price == SafeFloat(s.mark_price)
    IN  IF contracts # 0 THEN SnapQty(contracts, 1)
        ELSE IF TruthyNum(last_price) THEN SnapQty(quote, last_price)
        ELSE 0

ZeroQuantityStrict(d, q) == d # "flat" /\ q < 0

\* Line 659: `if target_side and qty <= 0 and decision != "flat"`.
ZeroQuantity(d, q) == d # "flat" /\ q <= 0

CycleAccount ==
    /\ cPc = "account"
    /\ \E ok \in BOOLEAN, fetched \in BOOLEAN :
        LET q == ResolveQty(advice, src)
        IN  /\ acct' = IF ok /\ fetched THEN exPos ELSE NoPos
            /\ IF ~ok
               THEN /\ SetState("error", NoneStr)
                    /\ CycleEnds("raised")
                    /\ trace' = AccountRead(trace, "finally")
                    /\ UNCHANGED qty
               ELSE IF LowConfidence(confidence, AiConfThr(aiConfEnv))
               THEN /\ SetState("skipped", "low_confidence")
                    /\ CycleEnds("returned")
                    /\ trace' = AccountRead(AccountRead(trace, "reconcile"), "finally")
                    /\ UNCHANGED qty
               ELSE IF ZeroQuantity(decision, q)
               THEN /\ SetState("invalid", "zero_quantity")
                    /\ CycleEnds("returned")
                    /\ trace' = AccountRead(AccountRead(trace, "reconcile"), "finally")
                    /\ qty' = q
               ELSE /\ cPc' = "trade"
                    /\ qty' = q
                    /\ trace' = AccountRead(trace, "reconcile")
                    /\ UNCHANGED <<rdMark, rdKbar, decision, confidence, traderState,
                                   traderReason, cycleEnd>>
    /\ UNCHANGED <<advCalls, ordersSent, lacking>>
    /\ UNCHANGED <<hedge, src, snap, todo, curOid, curKind, res, filled_qty, tpIdx,
                   pollLeft>>
    /\ UNCHANGED <<cfgVars, exVars, osVars, advice, sent>>
    /\ UNCHANGED <<cacheVars, storeVars, obsVars, stopVars, loopVars>>

\* run_once lines 672-940: the order pipeline in one step, for the
\* specifications in which the orders themselves do not matter.  A flat
\* decision ends in state flat, an entry in state completed; an exception
\* ends in state error and is re-raised.
CycleTrade ==
    /\ cPc = "trade"
    /\ \E ok \in BOOLEAN, n \in {0, 1} :
        /\ ordersSent' = IF decision = "flat" \/ ~ok THEN n ELSE 1
        /\ IF ~ok
           THEN /\ SetState("error", NoneStr)
                /\ CycleEnds("raised")
           ELSE /\ SetState(IF decision = "flat" THEN "flat" ELSE "completed", NoneStr)
                /\ CycleEnds("returned")
    /\ UNCHANGED <<advCalls, lacking>>
    /\ UNCHANGED <<cacheVars, storeVars, obsVars, stopVars, tradeVars, loopVars>>

CacheInit ==
    /\ mark_price = NoneNum
    /\ last_mark_ts = 0
    /\ last_kline_close = EmptyDict
    /\ wsPc = "idle"
    /\ wsTs = 0
    /\ gotMark = FALSE
    /\ gotKline = FALSE
    /\ markMaxTs = 0
    /\ markMaxVal = NoneNum

CycleInit ==
    /\ cPc = "idle"
    /\ rdMark = NoneNum
    /\ rdKbar = EmptyDict
    /\ decision = NoneStr
    /\ confidence = NoneNum
    /\ traderState = NoneStr
    /\ traderReason = NoneStr
    /\ cycleEnd = "none"
    /\ advCalls = 0
    /\ ordersSent = 0
    /\ lacking = FALSE
    /\ advice = NoAdvice
    /\ hedge = FALSE
    /\ src = NoSrc
    /\ snap = EmptyDict
    /\ acct = NoPos
    /\ qty = 0
    /\ todo = <<>>
    /\ curOid = 0
    /\ curKind = NoneStr
    /\ res = NoRes
    /\ filled_qty = 0
    /\ tpIdx = 0
    /\ pollLeft = 0
    /\ sent = <<>>
    /\ trace = <<>>
    /\ cyStore = EmptyDict
    /\ wsStore = EmptyDict

(***************************************************************************)
(* ui/status_store.py                                                      *)
(***************************************************************************)
EVENT_LIMIT == 200
ORDER_LIMIT == 200
AI_HISTORY_LIMIT == 300
CLOSE_HISTORY_LIMIT == 500

\* Appends made beyond the limit of a list, and calls made by each writer.
MaxOver == 3
MaxWrites == 2

KeepOldest(lines, limit) ==
    IF Len(lines) > limit THEN SubSeq(lines, 1, limit) ELSE lines

\* lines[-limit:] when the list is longer than the limit.
KeepLast(lines, limit) ==
    IF Len(lines) > limit THEN SubSeq(lines, Len(lines) - limit + 1, Len(lines)) ELSE lines

\* append, then trim.
AppendCapped(lines, e, limit) == KeepLast(Append(lines, e), limit)

HistKinds == {"events", "orders", "ai_history", "close_history"}

HistLimit(k) ==
    IF k = "events" THEN EVENT_LIMIT
    ELSE IF k = "orders" THEN ORDER_LIMIT
    ELSE IF k = "ai_history" THEN AI_HISTORY_LIMIT
    ELSE CLOSE_HISTORY_LIMIT

HistStart(k) ==
    /\ histList = [x \in HistKinds |-> <<>>]
    /\ histKind = k
    /\ histNext = 0

\* The threads that write the status file: the cycle and the trigger loop.
Writers == {"cycle", "loop"}

\* status.json read as {}: no section, no list.
EmptyStatus ==
    [trader |-> EmptyDict, service |-> EmptyDict, events |-> <<>>, orders |-> <<>>,
     positions |-> <<>>]

SinkCall(op, section, payload, item) ==
    [op |-> op, section |-> section, payload |-> payload, item |-> item]

\* The calls a writer makes; the n-th call of writer w carries the item <<w, n>>.
SinkOps(w, n) ==
    IF w = "cycle"
    THEN {SinkCall("update_status", "trader", [state |-> "running", symbol |-> SYMBOL], <<>>),
          SinkCall("update_status", "trader", [state |-> "completed"], <<>>),
          SinkCall("append_event", NoneStr, EmptyDict, <<w, n>>),
          SinkCall("append_order_history", NoneStr, EmptyDict, <<w, n>>),
          SinkCall("set_positions", NoneStr, EmptyDict, <<w, n>>)}
    ELSE {SinkCall("update_status", "service", [state |-> "running"], <<>>),
          SinkCall("append_event", NoneStr, EmptyDict, <<w, n>>)}

MergeReplace(node, payload) == payload

\* node.update(payload)
Merge(node, payload) ==
    [k \in DOMAIN node \cup DOMAIN payload |->
        IF k \in DOMAIN payload THEN payload[k] ELSE node[k]]

\* What a call does to `data` between the read and the write (time stamps
\* left out): update_status, append_event, append_order_history, _set_key.
ApplyOp(data, o) ==
    IF o.op = "update_status"
    THEN [data EXCEPT ![o.section] = Merge(@, o.payload)]
    ELSE IF o.op = "append_event"
    THEN [data EXCEPT !.events = AppendCapped(@, o.item, EVENT_LIMIT)]
    ELSE IF o.op = "append_order_history"
    THEN [data EXCEPT !.orders = AppendCapped(@, o.item, ORDER_LIMIT)]
    ELSE [data EXCEPT !.positions = o.item]

LockFreeAlways == TRUE

\* _locked: `with _MEM_LOCK` and flock(LOCK_EX) block until the lock is free.
LockFree == sinkLock = "free"

SinkInit ==
    /\ sinkFile = [complete |-> TRUE, data |-> EmptyStatus]
    /\ sinkLock = "free"
    /\ wPc = [w \in Writers |-> "idle"]
    /\ wOp = [w \in Writers |-> SinkCall(NoneStr, NoneStr, EmptyDict, <<>>)]
    /\ wData = [w \in Writers |-> EmptyStatus]
    /\ wTmp = [w \in Writers |-> [complete |-> TRUE, data |-> EmptyStatus]]
    /\ wDone = [w \in Writers |-> 0]
    /\ applied = <<>>

\* What no call of the status store changes.
AuxFrame ==
    /\ UNCHANGED <<dryRun, dualSide, aiConfEnv>>
    /\ UNCHANGED <<exVars, osVars, advice, tlVars, sent, trace>>
    /\ UNCHANGED <<storeVars, obsVars, cacheVars, cycleVars, loopVars, stopVars>>

SinkFrame == AuxFrame /\ UNCHANGED auxVars

\* Bound on the update_status calls of a behaviour.
MaxUpdates == 4

\* update_status (lines 94-102) under its lock: the section is read, the
\* payload is merged into it, updated_ts and last_update_ts are stamped and
\* the file is replaced.  Time stamps are the number of the call.
update_status(section, payload) ==
    /\ stCall.n < MaxUpdates
    /\ LET ts == stCall.n + 1
           node == Merge(stData[section], payload)
       IN  /\ stData' = [stData EXCEPT ![section] = [updated_ts |-> ts] @@ node,
                                       !.last_update_ts = ts]
           /\ stCall' = [n |-> ts, section |-> section, payload |-> payload]
    /\ stPrev' = stData
    /\ stEver' = [stEver EXCEPT ![section] = @ \cup DOMAIN payload \cup {"updated_ts"}]
    /\ AuxFrame
    /\ UNCHANGED <<sinkVars, histVars, cancelVars, detVars, frVars, bootVars>>

\* run_once.set_state (lines 399-408): state, symbol, last_run_ts and
\* last_duration, then the keyword arguments of the call.
set_state(state, extra) ==
    update_status("trader",
                  extra @@ [state |-> state, symbol |-> SYMBOL, last_run_ts |-> stCall.n + 1,
                            last_duration |-> 1])

\* The keyword arguments of the set_state calls of run_once.
StateExtras ==
    {<<"running", [last_decision |-> "long", last_confidence |-> 8]>>,
     <<"skipped", [reason |-> "ws_cache_missing"]>>,
     <<"invalid", [last_decision |-> "long", last_confidence |-> 8,
                   reason |-> "zero_quantity"]>>,
     <<"error", [last_decision |-> NoneStr, last_confidence |-> NoneNum,
                 error |-> "timeout"]>>,
     <<"completed", [last_decision |-> "long", last_confidence |-> 8, filled_qty |-> 10,
                     last_action |-> "entry"]>>}

\* The payloads run_service publishes for the service section.
ServicePayloads ==
    {[state |-> "running", trigger |-> "kline", symbol |-> SYMBOL, last_event |-> NoneStr],
     [state |-> "fallback", trigger |-> "timer", symbol |-> SYMBOL, error |-> "refused"],
     [state |-> "stopped", symbol |-> SYMBOL]}

\* A writer enters `with _locked():` for its next call.
SinkAcquire(w, o) ==
    /\ wPc[w] = "idle"
    /\ wDone[w] < MaxWrites
    /\ LockFree
    /\ sinkLock' = w
    /\ wOp' = [wOp EXCEPT ![w] = o]
    /\ wPc' = [wPc EXCEPT ![w] = "locked"]
    /\ UNCHANGED <<sinkFile, wData, wTmp, wDone, applied, histVars>>
    /\ SinkFrame

\* data = _read_unlocked()
SinkRead(w) ==
    /\ wPc[w] = "locked"
    /\ wData' = [wData EXCEPT ![w] = sinkFile.data]
    /\ wPc' = [wPc EXCEPT ![w] = "read"]
    /\ UNCHANGED <<sinkFile, sinkLock, wOp, wTmp, wDone, applied, histVars>>
    /\ SinkFrame

\* _write_unlocked: the payload is being written to a temporary file.
SinkWriteTemp(w) ==
    /\ wPc[w] = "read"
    /\ wTmp' = [wTmp EXCEPT ![w] = [complete |-> FALSE, data |-> ApplyOp(wData[w], wOp[w])]]
    /\ wPc' = [wPc EXCEPT ![w] = "writing"]
    /\ UNCHANGED <<sinkFile, sinkLock, wOp, wData, wDone, applied, histVars>>
    /\ SinkFrame

\* _write_unlocked: flush and fsync complete the temporary file.
SinkFlush(w) ==
    /\ wPc[w] = "writing"
    /\ wTmp' = [wTmp EXCEPT ![w].complete = TRUE]
    /\ wPc' = [wPc EXCEPT ![w] = "flushed"]
    /\ UNCHANGED <<sinkFile, sinkLock, wOp, wData, wDone, applied, histVars>>
    /\ SinkFrame

\* _write_unlocked: os.replace puts the temporary file in place of status.json.
SinkReplace(w) ==
    /\ wPc[w] = "flushed"
    /\ sinkFile' = wTmp[w]
    /\ applied' = Append(applied, wOp[w])
    /\ wPc' = [wPc EXCEPT ![w] = "replaced"]
    /\ UNCHANGED <<sinkLock, wOp, wData, wTmp, wDone, histVars>>
    /\ SinkFrame

\* The writer leaves `with _locked():`.
SinkRelease(w) ==
    /\ wPc[w] = "replaced"
    /\ sinkLock' = "free"
    /\ wDone' = [wDone EXCEPT ![w] = @ + 1]
    /\ wPc' = [wPc EXCEPT ![w] = "idle"]
    /\ UNCHANGED <<sinkFile, wOp, wData, wTmp, applied, histVars>>
    /\ SinkFrame

\* append_event, append_order_history, append_ai_history and
\* append_close_history by a single writer: the list is read back as it was
\* written, the entry appended and the list trimmed to its limit.
AppendHistory(k) ==
    /\ histKind = k
    /\ histNext < HistLimit(k) + MaxOver
    /\ histNext' = histNext + 1
    /\ histList' = [histList EXCEPT ![k] = AppendCapped(@, histNext + 1, HistLimit(k))]
    /\ UNCHANGED <<histKind, sinkVars>>
    /\ SinkFrame

append_event == AppendHistory("events")
append_order_history == AppendHistory("orders")
append_ai_history == AppendHistory("ai_history")
append_close_history == AppendHistory("close_history")

(***************************************************************************)
(* auto_future_trader.py: cancel_stale_protection_orders                   *)
(***************************************************************************)
\* The values of reduceOnly and closePosition in an open-order record: a
\* bool, a string, or absent.
FlagInputs == {"True", "False", "'true'", "None"}

\* Lines 322-327: a string flag is true when its lower case is "true".
Flag(v) == v \in {"True", "'true'", "'True'", "'TRUE'"}

IsProtectionReduceOnly(od) == Flag(od.reduceOnly)

\* Lines 321-330: reduceOnly or closePosition.
IsProtection(od) == Flag(od.reduceOnly) \/ Flag(od.closePosition)

\* Lines 333-342: is the position the order protects zero in the snapshot.
PositionGone(od, long_qty, short_qty, hedge_mode) ==
    IF hedge_mode
    THEN \/ od.positionSide = "LONG" /\ long_qty <= 0
         \/ od.positionSide = "SHORT" /\ short_qty <= 0
    ELSE long_qty <= 0 /\ short_qty <= 0

\* Lines 314-345: the order is to be cancelled.
CancelDecision(od, long_qty, short_qty, hedge_mode) ==
    /\ od.type \in {"STOP", "TAKE_PROFIT", "STOP_MARKET", "TAKE_PROFIT_MARKET",
                    "TRAILING_STOP_MARKET", "LIMIT"}
    /\ IsProtection(od)
    /\ PositionGone(od, long_qty, short_qty, hedge_mode)

OpenOrder(type, ro, cp, ps) ==
    [type |-> type, reduceOnly |-> ro, closePosition |-> cp, positionSide |-> ps,
     status |-> "NEW"]

\* The open orders of the symbol: any order, followed by a stop or an entry.
OpenOrderInputs ==
    {<<OpenOrder(t, ro, cp, ps), o2>> :
        t \in {"MARKET", "LIMIT", "STOP", "STOP_MARKET", "TAKE_PROFIT",
                "TAKE_PROFIT_MARKET", "TRAILING_STOP_MARKET"},
        ro \in FlagInputs, cp \in FlagInputs,
        ps \in {"LONG", "SHORT", "BOTH"},
        o2 \in {OpenOrder("STOP_MARKET", "True", "None", "LONG"),
                OpenOrder("LIMIT", "False", "None", "BOTH")}}

CancelIdle ==
    /\ csOrders = <<>>
    /\ csIn = [hedge_mode |-> FALSE, long_qty |-> 0, short_qty |-> 0, dry_run |-> TRUE,
               orders |-> <<>>]
    /\ csOut = [pc |-> "idle", canceled |-> <<>>, listed |-> FALSE, accepted |-> {}]

\* A VolatilityDetector after __init__ (lines 148-153), no call made yet.
DetNoCall ==
    [kind |-> "none", payload |-> EmptyDict, pre |-> <<>>, fired |-> FALSE, trig_vol |-> FALSE,
     judged |-> FALSE, vol |-> NoneNum, ts |-> NoneNum]

DetectorNew(lookback, t0) ==
    /\ dMp = <<>>
    /\ dVol = <<>>
    /\ dVolAll = <<>>
    /\ dLookback = lookback
    /\ dClock = t0
    /\ dCalls = 0
    /\ dLast = DetNoCall

\* No stream callback has run.
NoFrame == [n |-> 0, cb |-> "none", msg |-> EmptyDict]

\* status.json before the first update_status call of the process.
StatusData ==
    [trader |-> EmptyDict, service |-> EmptyDict, events |-> <<"start">>, last_update_ts |-> 0]

StatusIdle ==
    /\ stData = StatusData
    /\ stPrev = StatusData
    /\ stCall = [n |-> 0, section |-> NoneStr, payload |-> EmptyDict]
    /\ stEver = [trader |-> {}, service |-> {}]

AuxInit == CancelIdle /\ DetectorNew(20, 100) /\ frLast = NoFrame /\ StatusIdle

\* cancel_stale_protection_orders (lines 289-368): `listed` tells whether the
\* open-order query answers, `accepted` which cancel requests the exchange
\* accepts.  In a dry run the order is only logged and reported.
cancel_stale_protection_orders(listed, accepted) ==
    /\ csOut.pc = "called"
    /\ LET seen == IF listed THEN DOMAIN csOrders ELSE {}
           wanted == {i \in seen : CancelDecision(csOrders[i], csIn.long_qty,
                                                  csIn.short_qty, csIn.hedge_mode)}
           gone == IF csIn.dry_run THEN {} ELSE wanted \cap accepted
           told == IF csIn.dry_run THEN wanted ELSE gone
       IN  /\ csOrders' = [i \in DOMAIN csOrders |->
                            IF i \in gone THEN [csOrders[i] EXCEPT !.status = "CANCELED"]
                            ELSE csOrders[i]]
           /\ csOut' = [pc |-> "done",
                        canceled |-> SelectSeq(<<1, 2>>, LAMBDA i : i \in told),
                        listed |-> listed, accepted |-> accepted]
    /\ UNCHANGED csIn
    /\ AuxFrame
    /\ UNCHANGED <<sinkVars, histVars, detVars, frVars, statVars, bootVars>>

\* The environment of a cycle: DRY_RUN, the position mode, the threshold,
\* the positions and the orders open at the exchange.
TradeCfg(dry, hg, thr, pos, ords) ==
    /\ dryRun = dry
    /\ dualSide = hg
    /\ aiConfEnv = thr
    /\ exPos = pos
    /\ exOrders = ords

TradeEnv(dry, hg, thr, pos, ords) ==
    /\ TradeCfg(dry, hg, thr, pos, ords)
    /\ SinkInit
    /\ HistStart("events")
    /\ AuxInit

\* The defaults: DRY_RUN=true, one-way mode, threshold 0.5, no position.
TradeInit == TradeEnv(TRUE, FALSE, AiConfThrEnv, NoPos, <<>>)

(***************************************************************************)
(* service_runner.py: the volatility detector and the trigger loop.        *)
(***************************************************************************)
\* time.time() when run_service starts, in seconds: the epoch clock, far
\* from the initial last_run = 0.0.
T0 == 100

\* MP_WINDOW_SEC, MP_DELTA_PCT (in hundredths of a percent), KLINE_RANGE_PCT
\* (in tenths of a percent), VOL_LOOKBACK, VOL_MULT, USE_QUOTE_VOLUME.
mp_window_sec == 4
mp_delta_pct == 35
kline_range_pct == 6
vol_lookback == 20
vol_mult == 3
use_quote_volume == TRUE

\* Seconds between two statistics summaries of the event branch (line 440).
StatPeriod == 10

Min(a, b) == IF a <= b THEN a ELSE b
Abs(a) == IF a < 0 THEN 0 - a ELSE a

RECURSIVE SumSeq(_)
SumSeq(s) == IF s = <<>> THEN 0 ELSE Head(s) + SumSeq(Tail(s))

RECURSIVE Pow2(_)
Pow2(n) == IF n <= 0 THEN 1 ELSE 2 * Pow2(n - 1)

PruneNothing(h, win_start) == h

\* while self._mp_hist and self._mp_hist[0][0] < win_start: popleft()
RECURSIVE PruneHist(_, _)
PruneHist(h, win_start) ==
    IF h # <<>> /\ Head(h)[1] < win_start THEN PruneHist(Tail(h), win_start) ELSE h

AppendUnbounded(s, x, n) == Append(s, x)

\* deque(maxlen=n).append(x)
AppendMax(s, x, n) == IF Len(s) >= n THEN Append(Tail(s), x) ELSE Append(s, x)

\* VolatilityDetector.on_mark: the sample is appended, samples older than the
\* window are dropped, and the move against the oldest sample is compared
\* with the threshold.  Event times are milliseconds, history times seconds.
DetectorOnMark(hist, payload, clock) ==
    LET e == GetNum(payload, "E")
        ts == (IF TruthyNum(e) THEN e ELSE clock * 1000) \div 1000
        p == SafeFloat(GetNum(payload, "p"))
        h == PruneHist(Append(hist, <<ts, p>>), ts - mp_window_sec)
    IN  IF p = NoneNum THEN [fired |-> FALSE, hist |-> hist]
        ELSE IF Len(h) < 2 THEN [fired |-> FALSE, hist |-> h]
        ELSE IF h[1][2] = 0 THEN [fired |-> FALSE, hist |-> h]
        ELSE [fired |-> Abs(p - h[1][2]) * 10000 >= mp_delta_pct * Abs(h[1][2]),
              hist |-> h]

\* `not k.get("x")` on the raw closed flag, given as its Python repr.
TruthyFlag(x) == x \notin {NoneStr, "False", "''"}

VolRuleNoBaselineTest(vh, vol) ==
    vol # NoneNum /\ vol * Len(vh) >= vol_mult * SumSeq(vh)

\* on_kline lines 229-233: the volume sub-rule against the mean of the
\* recorded volumes `vh`.
VolRule(vh, vol) ==
    /\ vol # NoneNum
    /\ vh # <<>>
    /\ SumSeq(vh) > 0
    /\ vol * Len(vh) >= vol_mult * SumSeq(vh)

\* VolatilityDetector.on_kline of a detector built with vol_lookback =
\* lookback: a closed candle fires on its range or on its volume against the
\* mean of the recorded volumes; the volume is recorded after it has been
\* evaluated, in a deque of max(5, lookback) entries.
DetectorOnKlineWith(vh, payload, lookback) ==
    LET k == IF "k" \in DOMAIN payload THEN payload.k ELSE EmptyDict
        h == SafeFloat(GetNum(k, "h"))
        l == SafeFloat(GetNum(k, "l"))
        c == SafeFloat(GetNum(k, "c"))
        v_q == SafeFloat(GetNum(k, "q"))
        v_b == SafeFloat(GetNum(k, "v"))
        vol == IF use_quote_volume /\ v_q # NoneNum THEN v_q ELSE v_b
        trig_range == (h - l) * 1000 >= kline_range_pct * c
        trig_vol == VolRule(vh, vol)
        quiet == [fired |-> FALSE, vol_hist |-> vh, trig_vol |-> FALSE, judged |-> FALSE,
                  vol |-> NoneNum]
    IN  IF ~TruthyFlag(GetStr(k, "x")) THEN quiet
        ELSE IF ~TruthyNum(c) \/ ~TruthyNum(h) \/ ~TruthyNum(l) THEN quiet
        ELSE [fired |-> trig_range \/ trig_vol,
              vol_hist |-> IF vol # NoneNum
                           THEN AppendMax(vh, vol, Max(5, lookback)) ELSE vh,
              trig_vol |-> trig_vol, judged |-> TRUE, vol |-> vol]

\* The detector of run_service, built with VOL_LOOKBACK.
DetectorOnKline(vh, payload) ==
    LET r == DetectorOnKlineWith(vh, payload, vol_lookback)
    IN  [fired |-> r.fired, vol_hist |-> r.vol_hist]

\* Bounds of the detector specifications.
MaxMarks == 3
MaxDetTime == 5
MaxKlines == 7

MarkPrices == {NoneNum, 0, 2000, 2006, 2007}
MarkPayloads(t0) ==
    {[e |-> "markPriceUpdate", E |-> t, p |-> p] :
        t \in {NoneNum, 0, t0 * 1000}, p \in MarkPrices}

DetFrame == AuxFrame /\ UNCHANGED <<sinkVars, histVars, cancelVars, frVars, statVars, bootVars>>

\* One call of VolatilityDetector.on_mark (lines 160-199).
on_mark(payload) ==
    /\ dCalls < MaxMarks
    /\ LET r == DetectorOnMark(dMp, payload, dClock)
           e == GetNum(payload, "E")
       IN  /\ dMp' = r.hist
           /\ dLast' = [DetNoCall EXCEPT !.kind = "mark", !.payload = payload, !.pre = dMp,
                                         !.fired = r.fired,
                                         !.ts = (IF TruthyNum(e) THEN e
                                                 ELSE dClock * 1000) \div 1000]
    /\ dCalls' = dCalls + 1
    /\ UNCHANGED <<dVol, dVolAll, dLookback, dClock>>
    /\ DetFrame

\* A second passes between two events.
DetTick ==
    /\ dClock < T0 + MaxDetTime
    /\ dClock' = dClock + 1
    /\ UNCHANGED <<dMp, dVol, dVolAll, dLookback, dCalls, dLast>>
    /\ DetFrame

\* Closed and unclosed candles, with and without prices and volumes.
VolInputs == {NoneNum, 0, 10, 30}
KlinePayloads ==
    {[e |-> "kline", k |-> [x |-> "True", h |-> 1000, l |-> 1000, c |-> 1000, q |-> q]] :
        q \in VolInputs}
    \cup {[e |-> "kline", k |-> [x |-> "True", h |-> 1010, l |-> 1000, c |-> 1000, q |-> 10]],
          [e |-> "kline", k |-> [x |-> "False", h |-> 1000, l |-> 1000, c |-> 1000, q |-> 30]],
          [e |-> "kline", k |-> [x |-> "True", h |-> 1000, l |-> 1000, q |-> 30]],
          [e |-> "kline", k |-> [x |-> "True", h |-> 1000, l |-> 1000, c |-> 1000, v |-> 30]]}

\* One call of VolatilityDetector.on_kline (lines 202-277).
on_kline(payload) ==
    /\ dCalls < MaxKlines
    /\ LET r == DetectorOnKlineWith(dVol, payload, dLookback)
       IN  /\ dVol' = r.vol_hist
           /\ dVolAll' = IF r.vol # NoneNum THEN Append(dVolAll, r.vol) ELSE dVolAll
           /\ dLast' = [DetNoCall EXCEPT !.kind = "kline", !.payload = payload, !.pre = dVol,
                                         !.fired = r.fired, !.trig_vol = r.trig_vol,
                                         !.judged = r.judged, !.vol = r.vol]
    /\ dCalls' = dCalls + 1
    /\ UNCHANGED <<dMp, dLookback, dClock>>
    /\ DetFrame

\* FuturesWS._push: on a full queue the oldest event is taken out and the
\* new one is put.  No callback uses it.
PutDropOldest(q, evt) ==
    IF Len(q) < QueueMax THEN [ok |-> TRUE, q |-> Append(q, evt)]
    ELSE [ok |-> TRUE, q |-> Append(Tail(q), evt)]

\* Queue.put_nowait: the event is appended, or queue.Full is raised at once
\* when the queue holds maxsize events.
PutNowait(q, evt) ==
    IF Len(q) < QueueMax THEN [ok |-> TRUE, q |-> Append(q, evt)]
    ELSE [ok |-> FALSE, q |-> q]

\* FuturesWS._emit: a non-blocking put; a full queue drops the new event.
Emit(typ, payload) ==
    /\ lPc # "stopped"
    /\ ev_count + ev_drop < MaxEmits
    /\ LET r == PutNowait(evt_q, [type |-> typ, payload |-> payload])
       IN  /\ evt_q' = r.q
           /\ IF r.ok
              THEN ev_count' = ev_count + 1 /\ UNCHANGED ev_drop
              ELSE ev_drop' = ev_drop + 1 /\ UNCHANGED ev_count

\* on_mark_price line 284 and on_kline lines 303/333: the event handed to
\* the loop.  The cache writes of the same callbacks are OnMarkPrice and
\* OnKline; they touch no variable the loop reads.
EmitMark(msg) ==
    /\ Emit("mark", [Unwrap(msg) EXCEPT !.E = now * 1000])
    /\ UNCHANGED <<trigger, interval, cooldown, backoff_m, now, last_run, backoff,
                   lPc, wakeAt, stopEv, mp_hist, vol_hist, mark_cnt, kline_cnt,
                   last_stat, inCycle, lastStart, nStarts, failStreak>>
    /\ UNCHANGED <<storeVars, obsVars, stopVars, tradeVars, cacheVars, cycleVars>>

EmitKline(msg) ==
    /\ Emit("kline", Unwrap(msg))
    /\ UNCHANGED <<trigger, interval, cooldown, backoff_m, now, last_run, backoff,
                   lPc, wakeAt, stopEv, mp_hist, vol_hist, mark_cnt, kline_cnt,
                   last_stat, inCycle, lastStart, nStarts, failStreak>>
    /\ UNCHANGED <<storeVars, obsVars, stopVars, tradeVars, cacheVars, cycleVars>>

\* The thread of control after run_once_cb(symbol) was invoked: the loop
\* waits inside the call.
AfterInvokeNoWait == "top"
AfterInvoke == "cycle"

\* last_run = now; run_once_cb(symbol)
StartCycle ==
    /\ last_run' = now
    /\ lPc' = AfterInvoke
    /\ inCycle' = inCycle + 1
    /\ lastStart' = now
    /\ nStarts' = nStarts + 1

\* The cooldown test of the kline and event branches (lines 398, 461).
InCooldownNever(clock, last, cd) == FALSE
InCooldown(clock, last, cd) == clock - last < cd

\* Timer branch, lines 346-371, entered with the loop thread at `at`.
TimerBranch(at) ==
    /\ lPc = at
    /\ trigger = "timer"
    /\ now - last_run >= Max(1, interval)
    /\ StartCycle
    /\ UNCHANGED <<trigger, interval, cooldown, backoff_m, now, backoff, wakeAt,
                   stopEv, evt_q, ev_count, ev_drop, mp_hist, vol_hist, mark_cnt,
                   kline_cnt, last_stat, failStreak>>
    /\ UNCHANGED <<storeVars, obsVars, stopVars, tradeVars, cacheVars, cycleVars>>

\* One iteration of the timer loop: the while test and the branch.
LoopTimer == ~stopEv /\ TimerBranch("top")

SymbolMatchesAny(payload) == TRUE

\* The symbol filter of the kline and event branches (lines 392, 429).
SymbolMatches(payload) ==
    LET s == GetStr(payload, "s")
    IN  UpperSym(IF TruthyStr(s) THEN s ELSE "") = UpperSym(SYMBOL)

ClosedKlineAnyInterval(ev) ==
    LET k == IF "k" \in DOMAIN ev.payload THEN ev.payload.k ELSE EmptyDict
    IN  ev.type = "kline" /\ SymbolMatches(ev.payload) /\ TruthyFlag(GetStr(k, "x"))

\* The tests of the kline branch (lines 388-395) an event has to pass.
ClosedMinuteKline(ev) ==
    LET k == IF "k" \in DOMAIN ev.payload THEN ev.payload.k ELSE EmptyDict
    IN  /\ ev.type = "kline"
        /\ SymbolMatches(ev.payload)
        /\ GetStr(k, "i") = "1m"
        /\ TruthyFlag(GetStr(k, "x"))

\* Kline branch, lines 375-423: one event is taken from the queue.  An
\* event that starts no cycle sends the thread back to the while test.
KlineBranch(at) ==
    /\ lPc = at
    /\ trigger = "kline"
    /\ evt_q # <<>>
    /\ evt_q' = Tail(evt_q)
    /\ LET ev == Head(evt_q)
           qualifies == ClosedMinuteKline(ev)
       IN  IF qualifies /\ ~InCooldown(now, last_run, cooldown)
           THEN StartCycle
           ELSE lPc' = "top" /\ UNCHANGED <<last_run, inCycle, lastStart, nStarts>>
    /\ UNCHANGED <<trigger, interval, cooldown, backoff_m, now, backoff, wakeAt,
                   stopEv, ev_count, ev_drop, mp_hist, vol_hist, mark_cnt,
                   kline_cnt, last_stat, failStreak>>
    /\ UNCHANGED <<storeVars, obsVars, stopVars, tradeVars, cacheVars, cycleVars>>

LoopKline == ~stopEv /\ KlineBranch("top")

\* Event branch, lines 375-385 and 425-470: one event is taken from the
\* queue, shown to the detector, counted, and starts a cycle if the detector
\* fired and the cooldown has passed.
EventBranch(at) ==
    /\ lPc = at
    /\ trigger = "event"
    /\ evt_q # <<>>
    /\ evt_q' = Tail(evt_q)
    /\ LET ev == Head(evt_q)
           payload == ev.payload
           match == SymbolMatches(payload)
           dm == DetectorOnMark(mp_hist, payload, now)
           dk == DetectorOnKline(vol_hist, payload)
           fired == IF ev.type = "mark" THEN dm.fired
                    ELSE IF ev.type = "kline" THEN dk.fired ELSE FALSE
           mc == IF ev.type = "mark" THEN mark_cnt + 1 ELSE mark_cnt
           kc == IF ev.type = "kline" THEN kline_cnt + 1 ELSE kline_cnt
       IN  IF ~match
           THEN /\ lPc' = "top"
                /\ UNCHANGED <<mp_hist, vol_hist, mark_cnt, kline_cnt, last_stat,
                               last_run, inCycle, lastStart, nStarts>>
           ELSE /\ mp_hist' = IF ev.type = "mark" THEN dm.hist ELSE mp_hist
                /\ vol_hist' = IF ev.type = "kline" THEN dk.vol_hist ELSE vol_hist
                /\ IF now - last_stat >= StatPeriod
                   THEN mark_cnt' = 0 /\ kline_cnt' = 0 /\ last_stat' = now
                   ELSE mark_cnt' = mc /\ kline_cnt' = kc /\ UNCHANGED last_stat
                /\ IF fired /\ ~InCooldown(now, last_run, cooldown)
                   THEN StartCycle
                   ELSE lPc' = "top" /\ UNCHANGED <<last_run, inCycle, lastStart, nStarts>>
    /\ UNCHANGED <<trigger, interval, cooldown, backoff_m, now, backoff, wakeAt,
                   stopEv, ev_count, ev_drop, failStreak>>
    /\ UNCHANGED <<storeVars, obsVars, stopVars, tradeVars, cacheVars, cycleVars>>

LoopEvent == ~stopEv /\ EventBranch("top")

\* run_once_cb returns: last_run = finished, backoff = 1.0 (lines 353-369,
\* 404-422, 468-469).
LoopCycleReturn ==
    /\ lPc = "cycle"
    /\ inCycle' = inCycle - 1
    /\ last_run' = now
    /\ backoff' = 1
    /\ failStreak' = 0
    /\ lPc' = "top"
    /\ UNCHANGED <<trigger, interval, cooldown, backoff_m, now, wakeAt, stopEv,
                   evt_q, ev_count, ev_drop, mp_hist, vol_hist, mark_cnt,
                   kline_cnt, last_stat, lastStart, nStarts>>
    /\ UNCHANGED <<storeVars, obsVars, stopVars, tradeVars, cacheVars, cycleVars>>

\* run_once_cb raises: the handler (lines 472-474) starts time.sleep(backoff).
\* Failures are modelled up to the horizon of the clock.
LoopCycleRaise ==
    /\ lPc = "cycle"
    /\ now <= T0 + MaxTime
    /\ inCycle' = inCycle - 1
    /\ lPc' = "sleep"
    /\ wakeAt' = now + backoff
    /\ failStreak' = failStreak + 1
    /\ UNCHANGED <<trigger, interval, cooldown, backoff_m, now, last_run, backoff,
                   stopEv, evt_q, ev_count, ev_drop, mp_hist, vol_hist, mark_cnt,
                   kline_cnt, last_stat, lastStart, nStarts>>
    /\ UNCHANGED <<storeVars, obsVars, stopVars, tradeVars, cacheVars, cycleVars>>

\* backoff = min(backoff*2, backoff_m) (line 475).
NextBackoffUncapped(b, m) == b * 2
NextBackoff(b, m) == Min(b * 2, m)

\* The sleep is over: the back-off is doubled up to the cap.
LoopWake ==
    /\ lPc = "sleep"
    /\ now >= wakeAt
    /\ backoff' = NextBackoff(backoff, backoff_m)
    /\ lPc' = "top"
    /\ wakeAt' = 0
    /\ UNCHANGED <<trigger, interval, cooldown, backoff_m, now, last_run, stopEv,
                   evt_q, ev_count, ev_drop, mp_hist, vol_hist, mark_cnt,
                   kline_cnt, last_stat, inCycle, lastStart, nStarts, failStreak>>
    /\ UNCHANGED <<storeVars, obsVars, stopVars, tradeVars, cacheVars, cycleVars>>

\* One second passes on the clock.
Tick ==
    /\ now < T0 + MaxTime
    /\ lPc # "stopped"
    /\ now' = now + 1
    /\ UNCHANGED <<trigger, interval, cooldown, backoff_m, last_run, backoff, lPc,
                   wakeAt, stopEv, evt_q, ev_count, ev_drop, mp_hist, vol_hist,
                   mark_cnt, kline_cnt, last_stat, inCycle, lastStart, nStarts,
                   failStreak>>
    /\ UNCHANGED <<storeVars, obsVars, stopVars, tradeVars, cacheVars, cycleVars>>

\* The signal handler (line 41): _STOP.set().
SetStop ==
    /\ ~stopEv
    /\ lPc # "stopped"
    /\ stopEv' = TRUE
    /\ startsAtStop' = nStarts
    /\ UNCHANGED <<trigger, interval, cooldown, backoff_m, now, last_run, backoff, lPc,
                   wakeAt, evt_q, ev_count, ev_drop, mp_hist, vol_hist, mark_cnt,
                   kline_cnt, last_stat, inCycle, lastStart, nStarts, failStreak>>
    /\ UNCHANGED <<svcState, wsStopAsked>>
    /\ UNCHANGED <<storeVars, obsVars, tradeVars, cacheVars, cycleVars>>

\* _STOP.is_set() as the while test reads it.
StopSeenNever(stop) == FALSE
StopSeen(stop) == stop

\* `while not _STOP.is_set()` (line 344): the loop goes on to its branch, or
\* leaves and publishes state stopping (lines 476-477).
LoopCheck ==
    /\ lPc = "top"
    /\ IF StopSeen(stopEv)
       THEN lPc' = "cleanup" /\ svcState' = "stopping"
       ELSE lPc' = "recv" /\ UNCHANGED svcState
    /\ UNCHANGED <<trigger, interval, cooldown, backoff_m, now, last_run, backoff,
                   wakeAt, stopEv, evt_q, ev_count, ev_drop, mp_hist, vol_hist,
                   mark_cnt, kline_cnt, last_stat, inCycle, lastStart, nStarts,
                   failStreak>>
    /\ UNCHANGED <<wsStopAsked, startsAtStop>>
    /\ UNCHANGED <<storeVars, obsVars, tradeVars, cacheVars, cycleVars>>

\* The branches entered after the while test has been passed.
StopTimer == TimerBranch("recv")
StopKline == KlineBranch("recv")
StopEvent == EventBranch("recv")

\* Nothing to do in this iteration: the timer is not due (line 348), or
\* evt_q.get(timeout=1.0) raised Empty (lines 376-378); after _STOP.wait the
\* loop continues with the while test.
LoopIdle ==
    /\ lPc = "recv"
    /\ IF trigger = "timer" THEN now - last_run < Max(1, interval) ELSE evt_q = <<>>
    /\ lPc' = "top"
    /\ UNCHANGED <<trigger, interval, cooldown, backoff_m, now, last_run, backoff,
                   wakeAt, stopEv, evt_q, ev_count, ev_drop, mp_hist, vol_hist,
                   mark_cnt, kline_cnt, last_stat, inCycle, lastStart, nStarts,
                   failStreak>>
    /\ UNCHANGED <<storeVars, obsVars, stopVars, tradeVars, cacheVars, cycleVars>>

\* The finally block (lines 478-484): ws_instance.stop() if ws_instance is
\* set, whose failure is only logged, then state stopped.
LoopCleanup ==
    /\ lPc = "cleanup"
    /\ wsStopAsked' = ws_instance
    /\ svcState' = "stopped"
    /\ lPc' = "stopped"
    /\ UNCHANGED <<trigger, interval, cooldown, backoff_m, now, last_run, backoff,
                   wakeAt, stopEv, evt_q, ev_count, ev_drop, mp_hist, vol_hist,
                   mark_cnt, kline_cnt, last_stat, inCycle, lastStart, nStarts,
                   failStreak>>
    /\ UNCHANGED startsAtStop
    /\ UNCHANGED <<storeVars, obsVars, tradeVars, cacheVars, cycleVars>>

\* A second passes while the loop is inside time.sleep(backoff).
SleepTick ==
    /\ lPc = "sleep"
    /\ now < wakeAt
    /\ now' = now + 1
    /\ UNCHANGED <<trigger, interval, cooldown, backoff_m, last_run, backoff, lPc,
                   wakeAt, stopEv, evt_q, ev_count, ev_drop, mp_hist, vol_hist,
                   mark_cnt, kline_cnt, last_stat, inCycle, lastStart, nStarts,
                   failStreak>>
    /\ UNCHANGED <<storeVars, obsVars, stopVars, tradeVars, cacheVars, cycleVars>>

\* What a stream callback leaves alone: everything but the cache slots, the
\* queue and its counters.
FrameRest ==
    /\ UNCHANGED <<dryRun, dualSide, aiConfEnv, sinkVars, histVars, cancelVars, detVars,
                   statVars, bootVars>>
    /\ UNCHANGED <<exVars, osVars, advice, tlVars, sent, trace, storeVars, obsVars, stopVars>>
    /\ UNCHANGED <<trigger, interval, cooldown, backoff_m, now, last_run, backoff, lPc,
                   wakeAt, stopEv, mp_hist, vol_hist, mark_cnt, kline_cnt, last_stat,
                   inCycle, lastStart, nStarts, failStreak>>
    /\ UNCHANGED <<cPc, rdMark, rdKbar, decision, confidence, traderState, traderReason,
                   cycleEnd, advCalls, ordersSent>>
    /\ UNCHANGED <<cacheSet, wsPc, wsTs, markMaxTs, markMaxVal>>

\* FuturesWS.on_mark_price (lines 268-284) as one step: the cache write when
\* the frame is for the configured symbol and its price parses, then the
\* event for the loop.
ws_on_mark_price(msg) ==
    LET m == Unwrap(msg)
        sym == GetStr(m, "s")
        ts == IF TruthyNum(GetNum(m, "E")) THEN GetNum(m, "E") ELSE 0
        p == SafeFloat(IF TruthyNum(GetNum(m, "p")) THEN GetNum(m, "p") ELSE NoneNum)
    IN  /\ wsPc = "idle"
        /\ IF cacheSet /\ sym = SYMBOL /\ p # NoneNum
           THEN /\ mark_price' = p
                /\ last_mark_ts' = ts
                /\ gotMark' = TRUE
                /\ lacking' = (lacking /\ Lacks(p, ts, last_kline_close))
           ELSE UNCHANGED <<mark_price, last_mark_ts, gotMark, lacking>>
        /\ UNCHANGED <<last_kline_close, gotKline>>
        /\ Emit("mark", m)
        /\ frLast' = [n |-> frLast.n + 1, cb |-> "mark", msg |-> m]
        /\ FrameRest

\* FuturesWS.on_kline (lines 288-333) as one step: a frame for another
\* symbol is handed to the loop at once; a closed 1m candle of the
\* configured symbol is cached first.
ws_on_kline(msg) ==
    LET m == Unwrap(msg)
        k == IF "k" \in DOMAIN m THEN m.k ELSE EmptyDict
        raw == IF GetStr(m, "e") = "continuous_kline"
               THEN GetStr(m, "ps")
               ELSE IF TruthyStr(GetStr(m, "s")) THEN GetStr(m, "s") ELSE GetStr(k, "s")
        sym == UpperSym(IF TruthyStr(raw) THEN raw ELSE "")
    IN  /\ wsPc = "idle"
        /\ IF cacheSet /\ sym # "" /\ sym = UpperSym(SYMBOL) /\ GetStr(k, "i") = "1m"
              /\ IsClosed(GetStr(k, "x"))
           THEN /\ last_kline_close' = KlinePayload(k, sym)
                /\ gotKline' = TRUE
                /\ lacking' = (lacking /\ Lacks(mark_price, last_mark_ts,
                                                 KlinePayload(k, sym)))
           ELSE UNCHANGED <<last_kline_close, gotKline, lacking>>
        /\ UNCHANGED <<mark_price, last_mark_ts, gotMark>>
        /\ Emit("kline", m)
        /\ frLast' = [n |-> frLast.n + 1, cb |-> "kline", msg |-> m]
        /\ FrameRest

\* FuturesWS.on_user (lines 237-264) for an account update: the frame is
\* logged and handed to the loop.
ws_on_user(msg) ==
    /\ GetStr(msg, "e") = "ACCOUNT_UPDATE"
    /\ wsPc = "idle"
    /\ UNCHANGED <<mark_price, last_mark_ts, gotMark, last_kline_close, gotKline, lacking>>
    /\ Emit("user", msg)
    /\ frLast' = [n |-> frLast.n + 1, cb |-> "user", msg |-> msg]
    /\ FrameRest

\* Frames the sockets deliver: of the configured symbol and of others, open
\* and closed candles, other intervals, continuous klines, an error frame
\* of the socket library.
WideBar(i, x) == [i |-> i, x |-> x, h |-> 1010, l |-> 1000, c |-> 1000, q |-> 10]
FrameMarks(t) ==
    {[e |-> "markPriceUpdate", s |-> "ETHUSDT", E |-> t, p |-> 2000],
     [e |-> "markPriceUpdate", s |-> "BTCUSDT", E |-> t, p |-> 2007]}
FrameKlines ==
    {[e |-> "kline", s |-> "ETHUSDT", k |-> WideBar("1m", "True")],
     [e |-> "kline", s |-> "ETHUSDT", k |-> WideBar("1m", "False")],
     [e |-> "kline", s |-> "ETHUSDT", k |-> WideBar("5m", "True")],
     [e |-> "kline", s |-> "BTCUSDT", k |-> WideBar("1m", "True")],
     [e |-> "continuous_kline", ps |-> "BTCUSDT", k |-> WideBar("1m", "True")],
     [e |-> "error", m |-> "closed"]}
FrameUsers == {[e |-> "ACCOUNT_UPDATE", E |-> 0]}

\* Events the streams hand to the loop.
LoopMarkMsgs ==
    {[e |-> "markPriceUpdate", s |-> "ETHUSDT", E |-> 0, p |-> p] : p \in {100, 101}}
LoopKlineMsgs ==
    {[e |-> "kline", s |-> "ETHUSDT",
      k |-> [i |-> "1m", x |-> "True", h |-> 101, l |-> 100, c |-> 100, q |-> 10]]}

\* Configurations: <<LOOP_TRIGGER, LOOP_INTERVAL_SEC, LOOP_COOLDOWN_SEC,
\* LOOP_BACKOFF_MAX_SEC>>.  The values are read with int() and not validated.
LoopConfigs ==
    {<<"timer", 2, 8, 0>>, <<"timer", 2, 8, 3>>, <<"kline", 2, 2, 3>>,
     <<"event", 2, 2, 3>>, <<"event", 2, 8, 3>>}

\* run_service lines 282-307 and 340-343: the configuration is read, the
\* queue is created, last_run = 0.0 and backoff = 1.0.
LoopFields(trig, itv, cd, bm) ==
    /\ trigger = trig
    /\ interval = itv
    /\ cooldown = cd
    /\ backoff_m = bm
    /\ now = T0
    /\ last_run = 0
    /\ backoff = 1
    /\ wakeAt = 0
    /\ stopEv = FALSE
    /\ evt_q = <<>>
    /\ ev_count = 0
    /\ ev_drop = 0
    /\ mp_hist = <<>>
    /\ vol_hist = <<>>
    /\ mark_cnt = 0
    /\ kline_cnt = 0
    /\ last_stat = T0
    /\ inCycle = 0
    /\ lastStart = NoneNum
    /\ nStarts = 0
    /\ failStreak = 0
    /\ wsStopAsked = FALSE
    /\ startsAtStop = NoneNum

\* run_service lines 282-343 with a subscriber that started: the loop is
\* about to make its first while test.
LoopStart(trig, itv, cd, bm) ==
    /\ LoopFields(trig, itv, cd, bm)
    /\ lPc = "top"
    /\ svcState = "running"
    /\ wsStart = "ok"
    /\ ws_instance = TRUE
    /\ detector = (trig = "event")

\* run_service at line 309: the subscriber is not constructed yet.
LoopPending(trig, itv, cd, bm) ==
    /\ LoopFields(trig, itv, cd, bm)
    /\ lPc = "boot"
    /\ svcState = "starting"
    /\ wsStart = "pending"
    /\ ws_instance = FALSE
    /\ detector = FALSE

FallbackKeepsTrigger(out, trig) == trig

\* Lines 323-325: any exception of the construction or the start puts the
\* loop in timer mode.
FallbackTrigger(out, trig) == IF out = "ok" THEN trig ELSE "timer"

\* Lines 309-338: FuturesWS is constructed, assigned to ws_instance and
\* started; `out` tells which of the two raises, if any.  The detector is
\* created for the event trigger only.
StartSubscriber(out) ==
    /\ lPc = "boot"
    /\ wsStart' = out
    /\ ws_instance' = (out # "ctor_raises")
    /\ trigger' = FallbackTrigger(out, trigger)
    /\ detector' = (trigger' = "event")
    /\ svcState' = IF out = "ok" THEN "running" ELSE "fallback"
    /\ lPc' = "top"
    /\ UNCHANGED <<interval, cooldown, backoff_m, now, last_run, backoff, wakeAt, stopEv,
                   evt_q, ev_count, ev_drop, mp_hist, vol_hist, mark_cnt, kline_cnt,
                   last_stat, inCycle, lastStart, nStarts, failStreak>>
    /\ UNCHANGED <<wsStopAsked, startsAtStop>>
    /\ UNCHANGED <<dryRun, dualSide, aiConfEnv, sinkVars, histVars, cancelVars, detVars,
                   frVars, statVars>>
    /\ UNCHANGED <<exVars, osVars, advice, tlVars, sent, trace>>
    /\ UNCHANGED <<storeVars, obsVars, cacheVars, cycleVars>>

\* The kline socket of a subscriber that exists hands an event to the loop.
SubscriberEmits(msg) == ws_instance /\ lPc # "boot" /\ EmitKline(msg)

\* ---------------------------------------------------------------------
\* The order pipeline of run_once (lines 672-922), step by step, against an
\* exchange that holds the positions and the orders of the symbol.
\* Quantities are in units of the step size.

\* The order types futures_create_order knows.
ExchangeOrderTypes ==
    {"MARKET", "LIMIT", "STOP", "STOP_MARKET", "TAKE_PROFIT", "TAKE_PROFIT_MARKET",
     "TRAILING_STOP_MARKET"}

\* The type string of the trailing stop (line 886).
TrailingType == "FUTURE_ORDER_TYPE_TRAILING_STOP_MARKET"

PROTECT_TYPES ==
    {"STOP", "TAKE_PROFIT", "STOP_MARKET", "TAKE_PROFIT_MARKET", "TRAILING_STOP_MARKET",
     "LIMIT"}

\* FuturesWS is constructed with enable_user=False (service_runner.py:313).
EnableUser == FALSE

\* Number of getOrder polls that fit into the poll deadline.
MaxPolls == 2

\* Orders one cycle can place: close, entry, stop-loss, take-profits, trailing
\* stop, next to one open order of an earlier cycle.
MaxOrders == 8

side_map(target) == IF target = "long" THEN "BUY" ELSE "SELL"
pos_side_map(side) == IF side = "long" THEN "LONG" ELSE "SHORT"
OtherSide(side) == IF side = "long" THEN "short" ELSE "long"

\* The side an order of direction `side` closes.
ClosesSide(side) == IF side = "SELL" THEN "long" ELSE "short"

\* positionSide is stamped in hedge mode only.
Stamp(side) == IF hedge THEN pos_side_map(side) ELSE NoneStr

\* Line 686: the direction of the order that closes position p.
FlatReduceSideSame(p) == IF p = "long" THEN "BUY" ELSE "SELL"
FlatReduceSide(p) == IF p = "long" THEN "SELL" ELSE "BUY"

\* Line 737: the direction of the order that closes the opposite position.
ReverseReduceSide(target) == IF target = "short" THEN "BUY" ELSE "SELL"

\* The position a reduce-only order can reduce: in hedge mode the one named by
\* positionSide, provided the direction closes it; else the one the direction
\* closes.
ReducibleQty(o, pos) ==
    IF dualSide
    THEN IF o.ps = pos_side_map(ClosesSide(o.side)) THEN pos[ClosesSide(o.side)] ELSE 0
    ELSE pos[ClosesSide(o.side)]

\* futures_create_order accepts the order: a known type, and a reduce-only
\* order has a position to reduce.
ExchangeTakes(o) ==
    /\ o.type \in ExchangeOrderTypes
    /\ o.ro => ReducibleQty(o, exPos) > 0

PlaceRespLive(o, ok) == IF ok /\ ExchangeTakes(o) THEN "NEW" ELSE "ERROR"

\* place_order (lines 191-201): the response status and the order id.
PlaceResp(o, ok) ==
    IF dryRun THEN "DRY_RUN" ELSE IF ok /\ ExchangeTakes(o) THEN "NEW" ELSE "ERROR"

PlaceOid(o, ok) == IF PlaceResp(o, ok) = "NEW" THEN Len(exOrders) + 1 ELSE 0

\* OrderStore.register on the store of the cycle.
RegisterOrder(st, oid, side, ps) ==
    IF oid \in DOMAIN st THEN st
    ELSE [i \in DOMAIN st \cup {oid} |->
            IF i = oid
            THEN [status |-> "NEW", executed_qty |-> 0, side |-> side,
                  position_side |-> ps, signalled |-> FALSE]
            ELSE st[i]]

\* update_from_user_event on the store of the subscriber.
OnUserStore(st, oid, status, z) ==
    [i \in DOMAIN st \cup {oid} |->
        IF i = oid
        THEN [status |-> status, executed_qty |-> z, side |-> NoneStr,
              position_side |-> NoneStr, signalled |-> FALSE]
        ELSE st[i]]

\* place_order, record_order and, for an accepted order, order_store.register.
\* `fill` is the executed quantity recorded with a simulated order.
Placed(o, ok) ==
    LET resp == PlaceResp(o, ok)
        oid == PlaceOid(o, ok)
    IN  /\ sent' = Append(sent, [kind |-> o.kind, side |-> o.side, type |-> o.type,
                                 qty |-> o.qty, ro |-> o.ro, ps |-> o.ps,
                                 resp |-> resp, oid |-> oid,
                                 fill |-> IF resp = "DRY_RUN"
                                             /\ o.kind \in {"flat_exit", "hedge_close", "entry"}
                                          THEN o.qty
                                          ELSE NoneNum])
        /\ ordersSent' = ordersSent + 1
        /\ exOrders' = IF resp = "NEW"
                       THEN Append(exOrders, [kind |-> o.kind, side |-> o.side,
                                type |-> o.type, qty |-> o.qty, ro |-> o.ro,
                                ps |-> o.ps, status |-> "NEW", executed |-> 0])
                       ELSE exOrders
        /\ cyStore' = IF resp = "NEW" THEN RegisterOrder(cyStore, oid, o.side, o.ps)
                      ELSE cyStore
        /\ trace' = Append(trace, TraceEv("order", o.kind, oid, resp))

NoOrder == UNCHANGED <<exOrders, cyStore, sent, ordersSent>>

CycleGoes(pc) ==
    /\ cPc' = pc
    /\ UNCHANGED <<rdMark, rdKbar, decision, confidence, traderState, traderReason,
                   cycleEnd>>

\* What no step of the pipeline changes.
TradeFrame ==
    /\ UNCHANGED <<advCalls, lacking, cfgVars, exPos, wsStore, advice, hedge, src,
                   snap, acct, qty>>
    /\ UNCHANGED <<cacheVars, storeVars, obsVars, stopVars, loopVars>>

Order(kind, side, type, q, ro, ps) ==
    [kind |-> kind, side |-> side, type |-> type, qty |-> q, ro |-> ro, ps |-> ps]

\* ensure_symbol_leverage, lines 170-181: the exchange is asked to change the
\* leverage unless the desired one is below 1 or the run is a dry run.
LeverageCalled(desired) == desired >= 1 /\ ~dryRun

\* Lines 671-679 and 735: leverage is adjusted and the branch is chosen.
TradeDispatch ==
    /\ cPc = "trade"
    /\ trace' = IF LeverageCalled(advice.leverage)
                THEN Append(trace, TraceEv("leverage", NoneStr, 0, NoneStr))
                ELSE trace
    /\ IF decision = "flat"
       THEN /\ todo' = SelectSeq(<<"long", "short">>, LAMBDA s : acct[s] > 0)
            /\ CycleGoes("flat_place")
       ELSE /\ todo' = <<>>
            /\ CycleGoes(IF acct[OtherSide(decision)] > 0 THEN "close_place"
                         ELSE "entry_place")
    /\ NoOrder
    /\ UNCHANGED <<curOid, curKind, res, filled_qty, tpIdx, pollLeft>>
    /\ TradeFrame

\* Lines 680-717: the next open position is closed by a reduce-only market
\* order, which is waited for when the exchange accepted it.
PlaceFlat ==
    /\ cPc = "flat_place"
    /\ IF todo = <<>>
       THEN /\ CycleGoes("flat_cleanup")
            /\ NoOrder
            /\ UNCHANGED <<todo, curOid, curKind, trace>>
       ELSE \E ok \in BOOLEAN :
            LET p == Head(todo)
                o == Order("flat_exit", FlatReduceSide(p), "MARKET",
                           SnapQty(acct[p], 1), TRUE, Stamp(p))
            IN  /\ Placed(o, ok)
                /\ todo' = Tail(todo)
                /\ IF PlaceResp(o, ok) = "NEW"
                   THEN /\ curOid' = PlaceOid(o, ok)
                        /\ curKind' = "flat_exit"
                        /\ CycleGoes("wait_ws")
                   ELSE /\ UNCHANGED <<curOid, curKind>>
                        /\ CycleGoes("flat_place")
    /\ UNCHANGED <<res, filled_qty, tpIdx, pollLeft>>
    /\ TradeFrame

\* Lines 735-776: the opposite position is closed.  Without an order id the
\* cleanup is skipped and the entry follows at once.
PlaceClose ==
    /\ cPc = "close_place"
    /\ \E ok \in BOOLEAN :
        LET opp == OtherSide(decision)
            o == Order("hedge_close", ReverseReduceSide(decision), "MARKET",
                       SnapQty(acct[opp], 1), TRUE, Stamp(opp))
        IN  /\ Placed(o, ok)
            /\ IF PlaceResp(o, ok) = "NEW"
               THEN /\ curOid' = PlaceOid(o, ok)
                    /\ curKind' = "hedge_close"
                    /\ CycleGoes("wait_ws")
               ELSE /\ UNCHANGED <<curOid, curKind>>
                    /\ CycleGoes("entry_place")
    /\ UNCHANGED <<todo, res, filled_qty, tpIdx, pollLeft>>
    /\ TradeFrame

\* Lines 816: the executed quantity taken from a confirmation.
FilledQty(r, q) ==
    IF r # NoRes /\ r.status \in TERMINAL_STATUSES
    THEN IF TruthyNum(r.executed_qty) THEN r.executed_qty ELSE q
    ELSE 0

\* Where the cycle continues once the wait for an order is over.
AfterWait(kind) ==
    IF kind = "flat_exit" THEN "flat_place"
    ELSE IF kind = "hedge_close" THEN "close_cleanup"
    ELSE "entry_cleanup"

Confirmed(r) ==
    /\ res' = r
    /\ filled_qty' = IF curKind = "entry" THEN FilledQty(r, qty) ELSE filled_qty
    /\ CycleGoes(AfterWait(curKind))

\* wait_fill_with_ws (lines 209-225) on the tracker of the cycle's store.
WaitWs ==
    /\ cPc = "wait_ws"
    /\ LET tr == cyStore[curOid]
       IN  IF tr.signalled
           THEN /\ Confirmed([status |-> tr.status, executed_qty |-> tr.executed_qty,
                              via |-> "ws"])
                /\ trace' = Append(trace, TraceEv("ws_confirm", curKind, curOid,
                                                  exOrders[curOid].status))
                /\ UNCHANGED pollLeft
           ELSE /\ pollLeft' = MaxPolls
                /\ trace' = Append(trace, TraceEv("ws_timeout", curKind, curOid,
                                                  exOrders[curOid].status))
                /\ CycleGoes("poll")
                /\ UNCHANGED <<res, filled_qty>>
    /\ NoOrder
    /\ UNCHANGED <<todo, curOid, curKind, tpIdx>>
    /\ TradeFrame

\* poll_fill_backup (lines 239-257): one getOrder call; the tracker is not
\* touched.
Poll ==
    /\ cPc = "poll"
    /\ \E ok \in BOOLEAN :
        LET od == exOrders[curOid]
        IN  IF ok /\ od.status \in TERMINAL_STATUSES
            THEN /\ Confirmed([status |-> od.status, executed_qty |-> od.executed,
                               via |-> "rest"])
                 /\ trace' = Append(trace, TraceEv("poll", curKind, curOid, od.status))
                 /\ UNCHANGED pollLeft
            ELSE /\ trace' = Append(trace, TraceEv("poll", curKind, curOid,
                                        IF ok THEN od.status ELSE "failed"))
                 /\ IF pollLeft > 1
                    THEN /\ pollLeft' = pollLeft - 1
                         /\ CycleGoes("poll")
                         /\ UNCHANGED <<res, filled_qty>>
                    ELSE /\ pollLeft' = 0
                         /\ Confirmed(NoRes)
    /\ NoOrder
    /\ UNCHANGED <<todo, curOid, curKind, tpIdx>>
    /\ TradeFrame

\* cancel_stale_protection_orders, lines 322-341: the order is a protective
\* one whose position is zero in the account snapshot.
ShouldCancel(o, pos) ==
    /\ o.type \in PROTECT_TYPES
    /\ o.ro
    /\ IF hedge
       THEN \/ o.ps = "LONG" /\ pos.long <= 0
            \/ o.ps = "SHORT" /\ pos.short <= 0
       ELSE pos.long <= 0 /\ pos.short <= 0

\* The open orders after cancel_stale_protection_orders: the account fetch
\* yields no position when it fails, the open-order query yields nothing when
\* it fails, a failing cancel is logged.
AfterCancelStale(ords, fetched, listed, cancels) ==
    IF dryRun \/ ~listed \/ ~cancels THEN ords
    ELSE [i \in DOMAIN ords |->
            IF ords[i].status = "NEW"
               /\ ShouldCancel(ords[i], IF fetched THEN exPos ELSE NoPos)
            THEN [ords[i] EXCEPT !.status = "CANCELED"]
            ELSE ords[i]]

\* Lines 722-732, 770-773, 818-821: account fetch and stale-order cleanup.
\* The flat branch then publishes state flat and returns.
Cleanup ==
    /\ cPc \in {"flat_cleanup", "close_cleanup", "entry_cleanup"}
    /\ \E fetched \in BOOLEAN, listed \in BOOLEAN, cancels \in BOOLEAN :
        exOrders' = AfterCancelStale(exOrders, fetched, listed, cancels)
    /\ trace' = LET tr == Append(trace, TraceEv("cleanup", cPc, 0, NoneStr))
                IN  IF cPc = "flat_cleanup" THEN AccountRead(tr, "finally") ELSE tr
    /\ IF cPc = "flat_cleanup"
       THEN /\ SetState("flat", NoneStr)
            /\ CycleEnds("returned")
       ELSE CycleGoes(IF cPc = "close_cleanup" THEN "entry_place" ELSE "protect_sl")
    /\ UNCHANGED <<cyStore, sent, ordersSent>>
    /\ UNCHANGED <<todo, curOid, curKind, res, filled_qty, tpIdx, pollLeft>>
    /\ TradeFrame

\* Lines 778-822: the entry order.  In dry-run the requested quantity counts
\* as filled; without an order id nothing is filled.
PlaceEntry ==
    /\ cPc = "entry_place"
    /\ \E ok \in BOOLEAN :
        LET o == Order("entry", side_map(decision), advice.entry_type, qty, FALSE,
                       Stamp(decision))
            resp == PlaceResp(o, ok)
        IN  /\ Placed(o, ok)
            /\ IF resp = "NEW"
               THEN /\ curOid' = PlaceOid(o, ok)
                    /\ curKind' = "entry"
                    /\ filled_qty' = 0
                    /\ CycleGoes("wait_ws")
               ELSE /\ filled_qty' = IF resp = "DRY_RUN" THEN qty ELSE 0
                    /\ UNCHANGED <<curOid, curKind>>
                    /\ CycleGoes("protect_sl")
    /\ UNCHANGED <<todo, res, tpIdx, pollLeft>>
    /\ TradeFrame

ProtectSide == IF decision = "long" THEN "SELL" ELSE "BUY"

\* Lines 825-853: the stop-loss, if a quantity was filled and a price given.
PlaceStopLoss ==
    /\ cPc = "protect_sl"
    /\ IF filled_qty > 0 /\ TruthyNum(advice.sl)
       THEN \E ok \in BOOLEAN :
                Placed(Order("stop_loss", ProtectSide, "STOP_MARKET", filled_qty, TRUE,
                             Stamp(decision)), ok)
       ELSE NoOrder /\ UNCHANGED trace
    /\ tpIdx' = 1
    /\ CycleGoes(IF filled_qty > 0 THEN "protect_tp" ELSE "finish")
    /\ UNCHANGED <<todo, curOid, curKind, res, filled_qty, pollLeft>>
    /\ TradeFrame

\* Lines 855-876: one take-profit level.
PlaceTakeProfit ==
    /\ cPc = "protect_tp"
    /\ IF tpIdx > Len(advice.tps)
       THEN /\ CycleGoes("protect_trail")
            /\ NoOrder
            /\ UNCHANGED <<trace, tpIdx>>
       ELSE LET tp == advice.tps[tpIdx]
            IN  /\ IF ~TruthyNum(tp.price) \/ tp.size_pct <= 0
                   THEN NoOrder /\ UNCHANGED trace
                   ELSE \E ok \in BOOLEAN :
                            Placed(Order("take_profit", ProtectSide, "LIMIT",
                                         SnapQty(filled_qty * tp.size_pct, 100), TRUE,
                                         Stamp(decision)), ok)
                /\ tpIdx' = tpIdx + 1
                /\ CycleGoes("protect_tp")
    /\ UNCHANGED <<todo, curOid, curKind, res, filled_qty, pollLeft>>
    /\ TradeFrame

\* Lines 878-898: the trailing stop.
PlaceTrailing ==
    /\ cPc = "protect_trail"
    /\ IF advice.trail
       THEN \E ok \in BOOLEAN :
                Placed(Order("trailing_stop", ProtectSide, TrailingType, filled_qty, TRUE,
                             Stamp(decision)), ok)
       ELSE NoOrder /\ UNCHANGED trace
    /\ CycleGoes("finish")
    /\ UNCHANGED <<todo, curOid, curKind, res, filled_qty, tpIdx, pollLeft>>
    /\ TradeFrame

\* Lines 900-922: state completed is published.
TradeFinish ==
    /\ cPc = "finish"
    /\ SetState("completed", NoneStr)
    /\ CycleEnds("returned")
    /\ trace' = AccountRead(trace, "finally")
    /\ NoOrder
    /\ UNCHANGED <<todo, curOid, curKind, res, filled_qty, tpIdx, pollLeft>>
    /\ TradeFrame

\* A fill of f units of order o, applied to the positions.
ApplyFill(pos, o, f) ==
    IF o.ro
    THEN [pos EXCEPT ![ClosesSide(o.side)] = Max(0, @ - f)]
    ELSE IF dualSide
    THEN [pos EXCEPT ![OtherSide(ClosesSide(o.side))] = @ + f]
    ELSE LET net == pos.long - pos.short + (IF o.side = "BUY" THEN f ELSE 0 - f)
         IN  [long |-> Max(net, 0), short |-> Max(0 - net, 0)]

\* The quantity executed when an order ends as `how`.
ExecutedOf(o, how) ==
    LET want == IF how = "FILLED" THEN o.qty
                ELSE IF how = "EXPIRED" THEN (o.qty * 7) \div 10
                ELSE 0
    IN  IF o.ro THEN Min(want, ReducibleQty(o, exPos)) ELSE want

\* The exchange ends an open market or entry order: filled, expired after a
\* partial fill, or cancelled with nothing executed.  The ORDER_TRADE_UPDATE
\* reaches the subscriber's store only if the user stream is enabled.
ExchangeAct(oid, how) ==
    /\ oid \in DOMAIN exOrders
    /\ exOrders[oid].status = "NEW"
    /\ exOrders[oid].kind \in {"flat_exit", "hedge_close", "entry"}
    /\ LET o == exOrders[oid]
           f == ExecutedOf(o, how)
       IN  /\ exOrders' = [exOrders EXCEPT ![oid].status = how, ![oid].executed = f]
           /\ exPos' = ApplyFill(exPos, o, f)
           /\ wsStore' = IF EnableUser THEN OnUserStore(wsStore, oid, how, f) ELSE wsStore
    /\ UNCHANGED <<cfgVars, cyStore, advice, tlVars, sent, trace>>
    /\ UNCHANGED <<cycleVars, cacheVars, storeVars, obsVars, stopVars, loopVars>>

\* The defaults of run_service: kline trigger, 60 s, 8 s, 30 s.
LoopInit == LoopStart("kline", 60, 8, 30)

StoreInit ==
    /\ heap = <<>>
    /\ orders = <<>>
    /\ cyPc = "idle"
    /\ cyId = 0
    /\ cyRef = 0
    /\ cyLeft = 0
    /\ cyRet = NoRet
    /\ returned = [i \in OrderIds |-> {}]
    /\ stored = [i \in OrderIds |-> {}]
    /\ regs = 0
    /\ firstBy = "none"

ObsInit ==
    /\ obsLast = NoPayload
    /\ obsRepeat = FALSE
    /\ obsZMax = NoneNum
    /\ obsZLower = FALSE
    /\ obsTick = FALSE

Init ==
    /\ StoreInit /\ ObsInit /\ CacheInit /\ CycleInit /\ TradeInit /\ LoopInit
    /\ cacheSet = TRUE

RegisterSides == {"BUY"}
Timeouts == 0..MaxTimeout

\* The Order Store shared by the cycle thread and the subscriber thread.
Next ==
    \/ \E i \in OrderIds, s \in RegisterSides : Register(i, s)
    \/ \E i \in OrderIds : Get(i)
    \/ \E i \in OrderIds, t \in Timeouts : WaitUntilTerminal(i, t)
    \/ WutPoll
    \/ \E i \in OrderIds, t \in Timeouts : WaitFillWithWs(i, t)
    \/ WaitStep
    \/ \E p \in StorePayloads : UpdateFromUserEvent(p, FALSE)

Spec == Init /\ [][Next]_vars

\* The stream of trade updates of one order, with its history recorded.
NextEvents ==
    \/ \E s \in RegisterSides : Register(ObsId, s)
    \/ \E p \in EventPayloads : UpdateFromUserEvent(p, TRUE)

SpecEvents == Init /\ [][NextEvents]_vars

\* The subscriber thread alone: the two streams feeding the cache.
NextStream ==
    \/ \E m \in TimedMarkMsgs : OnMarkPrice(m, TRUE)
    \/ SetMarkTs
    \/ \E m \in KlineMsgs : OnKline(m)

SpecStream == Init /\ [][NextStream]_vars

\* The trading cycle next to the subscriber thread.  In single-shot mode
\* (LOOP_ENABLE off) no global cache is ever set.
ThrInputs == {-2, 5, 15}

\* Advice of every decision and confidence, with a fixed position block.
\* The mark price fetch_premium_and_funding returns to build_input_json.
RestMarks == {3000, 3002}

GateAdvices ==
    {[NoAdvice EXCEPT !.got = TRUE, !.decision = d, !.confidence = c, !.contracts = n] :
        d \in DecisionInputs, c \in ConfInputs, n \in {0, 10}}

InitCache ==
    /\ StoreInit /\ ObsInit /\ CacheInit /\ CycleInit /\ LoopInit
    /\ cacheSet \in BOOLEAN
    /\ \E thr \in ThrInputs : TradeEnv(TRUE, FALSE, thr, NoPos, <<>>)

NextCache ==
    \/ \E m \in CycleMarkMsgs : OnMarkPrice(m, FALSE)
    \/ SetMarkTs
    \/ \E m \in CycleKlineMsgs : OnKline(m)
    \/ CycleStart
    \/ CycleSetup
    \/ CycleReadMark
    \/ CycleReadKbar
    \/ CyclePrecheck
    \/ \E a \in GateAdvices, m \in RestMarks : CycleAdvise(a, m)
    \/ CycleAccount
    \/ CycleTrade

SpecCache == InitCache /\ [][NextCache]_vars

\* The trigger loop, the clock and the callbacks that feed the queue; the
\* cycle is the callback run_once_cb, which returns or raises.
InitLoop ==
    /\ StoreInit /\ ObsInit /\ CacheInit /\ CycleInit /\ TradeInit /\ cacheSet = TRUE
    /\ \E c \in LoopConfigs : LoopStart(c[1], c[2], c[3], c[4])

NextLoop ==
    \/ \E m \in LoopMarkMsgs : EmitMark(m)
    \/ \E m \in LoopKlineMsgs : EmitKline(m)
    \/ LoopTimer
    \/ LoopKline
    \/ LoopEvent
    \/ LoopCycleReturn
    \/ LoopCycleRaise
    \/ LoopWake
    \/ Tick

SpecLoop == InitLoop /\ [][NextLoop]_vars

\* The trigger loop with the stop signal: the while test and the branch are
\* separate steps, so that the signal can arrive between them.
StopConfigs == {<<"timer", 2, 2, 3>>, <<"kline", 2, 2, 3>>, <<"event", 2, 2, 3>>}

InitStop ==
    /\ StoreInit /\ ObsInit /\ CacheInit /\ CycleInit /\ TradeInit /\ cacheSet = TRUE
    /\ \E c \in StopConfigs : LoopStart(c[1], c[2], c[3], c[4])

\* The steps of the loop thread.
LoopSteps ==
    \/ LoopCheck
    \/ StopTimer
    \/ StopKline
    \/ StopEvent
    \/ LoopIdle
    \/ LoopCycleReturn
    \/ LoopCycleRaise
    \/ LoopWake
    \/ LoopCleanup

NextStop ==
    \/ SetStop
    \/ LoopSteps
    \/ SleepTick
    \/ Tick
    \/ \E m \in LoopKlineMsgs : EmitKline(m)

SpecStop == InitStop /\ [][NextStop]_vars

\* Every step of the loop thread ends: the cycle, the channel receive and
\* the sleep are bounded.
SpecStopFair == SpecStop /\ WF_vars(LoopSteps) /\ WF_vars(SleepTick)

\* One trading cycle against the exchange, with the cache already primed.
\* Each configuration is DRY_RUN, the position mode, the positions, and
\* whether a stop order of an earlier cycle is still open.
StaleStop ==
    [kind |-> "stop_loss", side |-> "SELL", type |-> "STOP_MARKET", qty |-> 10, ro |-> TRUE,
     ps |-> NoneStr, status |-> "NEW", executed |-> 0]

TradeConfigs ==
    {<<FALSE, FALSE, NoPos, FALSE>>,
     <<FALSE, FALSE, [long |-> 10, short |-> 0], TRUE>>,
     <<FALSE, FALSE, [long |-> 0, short |-> 20], FALSE>>,
     <<TRUE, FALSE, [long |-> 0, short |-> 20], FALSE>>,
     <<TRUE, FALSE, NoPos, TRUE>>,
     <<FALSE, TRUE, [long |-> 10, short |-> 20], FALSE>>}

TakeProfit(price, size_pct) == [price |-> price, size_pct |-> size_pct]

TradeAdvices ==
    {[NoAdvice EXCEPT !.got = TRUE, !.decision = "flat", !.confidence = 8],
     [NoAdvice EXCEPT !.got = TRUE, !.decision = "hold", !.confidence = 8,
                      !.contracts = 10],
     [NoAdvice EXCEPT !.got = TRUE, !.confidence = 8, !.contracts = 10],
     [NoAdvice EXCEPT !.got = TRUE, !.decision = "long", !.confidence = 8,
                      !.contracts = 10, !.leverage = 5, !.sl = 2950,
                      !.tps = <<TakeProfit(3050, 30), TakeProfit(3075, 0),
                                TakeProfit(3100, 70)>>,
                      !.trail = TRUE],
     [NoAdvice EXCEPT !.got = TRUE, !.decision = "long", !.confidence = NoneNum,
                      !.contracts = 10],
     [NoAdvice EXCEPT !.got = TRUE, !.decision = "short", !.confidence = 0,
                      !.contracts = 10, !.entry_type = "LIMIT", !.sl = 3050,
                      !.tps = <<TakeProfit(2900, 50)>>]}

PrimedCache ==
    /\ mark_price = 3000
    /\ last_mark_ts = 1000
    /\ last_kline_close = [i |-> "1m", s |-> SYMBOL, c |-> 3000, closed |-> TRUE]
    /\ wsPc = "idle"
    /\ wsTs = 0
    /\ gotMark = TRUE
    /\ gotKline = TRUE
    /\ markMaxTs = 0
    /\ markMaxVal = NoneNum

InitTrade ==
    /\ StoreInit /\ ObsInit /\ PrimedCache /\ CycleInit /\ LoopInit
    /\ cacheSet = TRUE
    /\ \E c \in TradeConfigs :
        TradeEnv(c[1], c[2], AiConfThrEnv, c[3], IF c[4] THEN <<StaleStop>> ELSE <<>>)

TradeSteps ==
    \/ TradeDispatch
    \/ PlaceFlat
    \/ PlaceClose
    \/ WaitWs
    \/ Poll
    \/ Cleanup
    \/ PlaceEntry
    \/ PlaceStopLoss
    \/ PlaceTakeProfit
    \/ PlaceTrailing
    \/ TradeFinish

NextTrade ==
    \/ cycleEnd = "none" /\ CycleStart
    \/ CycleSetup
    \/ CycleReadMark
    \/ CycleReadKbar
    \/ CyclePrecheck
    \/ \E a \in TradeAdvices, m \in RestMarks : CycleAdvise(a, m)
    \/ CycleAccount
    \/ TradeSteps
    \/ \E oid \in 1..MaxOrders, how \in {"FILLED", "EXPIRED", "CANCELED"} :
            ExchangeAct(oid, how)

SpecTrade == InitTrade /\ [][NextTrade]_vars

\* The trading cycle with advice whose size resolves to nothing: contracts
\* absent, zero or negative, a quote value below half a step or absent, and
\* an input without mark price.
QtyAdvices ==
    TradeAdvices
    \cup {[NoAdvice EXCEPT !.got = TRUE, !.decision = d, !.confidence = c, !.contracts = n,
                            !.quote = q, !.sl = 2950] :
            d \in {"long", "short"}, c \in {3, 8}, n \in {NoneNum, 0, -10},
            q \in {NoneNum, 1000, 1500, 6000}}
QtyMarks == {3000, NoneNum}

NextQty ==
    \/ cycleEnd = "none" /\ CycleStart
    \/ CycleSetup
    \/ CycleReadMark
    \/ CycleReadKbar
    \/ CyclePrecheck
    \/ \E a \in QtyAdvices, m \in QtyMarks : CycleAdvise(a, m)
    \/ CycleAccount
    \/ TradeSteps
    \/ \E oid \in 1..MaxOrders, how \in {"FILLED", "EXPIRED", "CANCELED"} :
            ExchangeAct(oid, how)

SpecQty == InitTrade /\ [][NextQty]_vars

\* The writers of the status file, each making MaxWrites calls.
InitSink ==
    /\ StoreInit /\ ObsInit /\ CacheInit /\ CycleInit /\ TradeInit /\ LoopInit
    /\ cacheSet = FALSE

NextSink ==
    \/ \E w \in Writers : \E o \in SinkOps(w, wDone[w] + 1) : SinkAcquire(w, o)
    \/ \E w \in Writers : SinkRead(w)
    \/ \E w \in Writers : SinkWriteTemp(w)
    \/ \E w \in Writers : SinkFlush(w)
    \/ \E w \in Writers : SinkReplace(w)
    \/ \E w \in Writers : SinkRelease(w)

SpecSink == InitSink /\ [][NextSink]_vars

\* One of the rolling lists, appended to until MaxOver entries beyond its
\* limit.
InitHist ==
    /\ StoreInit /\ ObsInit /\ CacheInit /\ CycleInit /\ LoopInit
    /\ cacheSet = FALSE
    /\ TradeCfg(TRUE, FALSE, AiConfThrEnv, NoPos, <<>>)
    /\ SinkInit
    /\ \E k \in HistKinds : HistStart(k)
    /\ AuxInit

NextHist ==
    \/ append_event
    \/ append_order_history
    \/ append_ai_history
    \/ append_close_history

SpecHist == InitHist /\ [][NextHist]_vars

\* cancel_stale_protection_orders applied once to any open orders, account
\* snapshot, position mode and dry-run setting.
InitCancel ==
    /\ StoreInit /\ ObsInit /\ CacheInit /\ CycleInit /\ LoopInit
    /\ cacheSet = FALSE
    /\ TradeCfg(TRUE, FALSE, AiConfThrEnv, NoPos, <<>>)
    /\ SinkInit
    /\ HistStart("events")
    /\ \E os \in OpenOrderInputs, hm \in BOOLEAN, lq \in {0, 10}, sq \in {0, 10},
          dr \in BOOLEAN :
        /\ csOrders = os
        /\ csIn = [hedge_mode |-> hm, long_qty |-> lq, short_qty |-> sq, dry_run |-> dr,
                   orders |-> os]
    /\ csOut = [pc |-> "called", canceled |-> <<>>, listed |-> FALSE, accepted |-> {}]
    /\ DetectorNew(vol_lookback, T0)
    /\ frLast = NoFrame
    /\ StatusIdle

NextCancel ==
    \E listed \in BOOLEAN, accepted \in SUBSET {1, 2} :
        cancel_stale_protection_orders(listed, accepted)

SpecCancel == InitCancel /\ [][NextCancel]_vars

\* run_service from the construction of the subscriber to the end of the
\* finally block, for each trigger.
InitStart ==
    /\ StoreInit /\ ObsInit /\ CacheInit /\ CycleInit /\ TradeInit /\ cacheSet = TRUE
    /\ \E c \in StopConfigs : LoopPending(c[1], c[2], c[3], c[4])

NextStart ==
    \/ \E out \in {"ok", "ctor_raises", "start_raises"} : StartSubscriber(out)
    \/ SetStop
    \/ LoopSteps
    \/ SleepTick
    \/ Tick
    \/ \E m \in LoopKlineMsgs : SubscriberEmits(m)

SpecStart == InitStart /\ [][NextStart]_vars

\* The status file under the updates of the cycle and of the service loop.
InitStatus ==
    /\ StoreInit /\ ObsInit /\ CacheInit /\ CycleInit /\ LoopInit
    /\ cacheSet = FALSE
    /\ TradeCfg(TRUE, FALSE, AiConfThrEnv, NoPos, <<>>)
    /\ SinkInit
    /\ HistStart("events")
    /\ AuxInit

NextStatus ==
    \/ update_status("trader", [state |-> "running", symbol |-> SYMBOL,
                                started_ts |-> stCall.n + 1])
    \/ \E c \in StateExtras : set_state(c[1], c[2])
    \/ \E payload \in ServicePayloads : update_status("service", payload)

SpecStatus == InitStatus /\ [][NextStatus]_vars

\* The stream callbacks next to the kline and event branches of the loop.
FrameConfigs == {<<"kline", 2, 2, 3>>, <<"event", 2, 2, 3>>}

InitFrames ==
    /\ StoreInit /\ ObsInit /\ CacheInit /\ CycleInit /\ TradeInit /\ cacheSet = TRUE
    /\ \E c \in FrameConfigs : LoopStart(c[1], c[2], c[3], c[4])

NextFrames ==
    \/ \E m \in FrameMarks(now * 1000) : ws_on_mark_price(m)
    \/ \E m \in FrameKlines : ws_on_kline(m)
    \/ \E m \in FrameUsers : ws_on_user(m)
    \/ LoopKline
    \/ LoopEvent
    \/ LoopCycleReturn
    \/ Tick

SpecFrames == InitFrames /\ [][NextFrames]_vars

\* A detector fed mark-price events while time passes.
InitMark ==
    /\ StoreInit /\ ObsInit /\ CacheInit /\ CycleInit /\ LoopInit
    /\ cacheSet = FALSE
    /\ TradeCfg(TRUE, FALSE, AiConfThrEnv, NoPos, <<>>)
    /\ SinkInit
    /\ HistStart("events")
    /\ CancelIdle
    /\ DetectorNew(vol_lookback, T0)
    /\ frLast = NoFrame
    /\ StatusIdle

NextMark ==
    \/ \E payload \in MarkPayloads(dClock) : on_mark(payload)
    \/ DetTick

SpecMark == InitMark /\ [][NextMark]_vars

\* Lookbacks a detector is built with (VOL_LOOKBACK, read with int()).
Lookbacks == {1, 3, 6}

\* A detector fed 1-minute candles.
InitVol ==
    /\ StoreInit /\ ObsInit /\ CacheInit /\ CycleInit /\ LoopInit
    /\ cacheSet = FALSE
    /\ TradeCfg(TRUE, FALSE, AiConfThrEnv, NoPos, <<>>)
    /\ SinkInit
    /\ HistStart("events")
    /\ CancelIdle
    /\ \E n \in Lookbacks : DetectorNew(n, T0)
    /\ frLast = NoFrame
    /\ StatusIdle

NextVol == \E payload \in KlinePayloads : on_kline(payload)

SpecVol == InitVol /\ [][NextVol]_vars

(***************************************************************************)
(* Claims about the Order Store.                                           *)
(***************************************************************************)

\* C1: every tracker whose status is terminal has its completion signal set,
\* and the signal went from unset to set exactly once.
C1_TerminalImpliesSignalled ==
    \A r \in DOMAIN heap :
        is_terminal(heap[r]) => (heap[r].event /\ heap[r].sigs = 1)

\* C2: wait_until_terminal returns the snapshot when the tracker has received
\* a terminal update by the time the call ends, and none otherwise; it never
\* ends any other way.
C2_WaitReturnsSnapshotOrNone ==
    (cyRet.op = "wait_until_terminal" /\ cyRet.kind # "pending")
        => cyRet.kind = (IF cyRet.term THEN "snapshot" ELSE "none")

\* C3: no step lowers the executed_qty of the tracker of any order id.
C3_ExecutedQtyMonotonic ==
    [][\A i \in DOMAIN orders :
          heap'[orders'[i]].executed_qty >= heap[orders[i]].executed_qty]_vars

\* C3 witness: for a tracked order an event carrying a cumulative quantity
\* below one delivered earlier has been applied.
C3_Witness ==
    /\ obsZLower
    /\ ObsId \in DOMAIN orders
    /\ obsLast.o.z # NoneNum
    /\ obsLast.o.z < obsZMax

\* C4: each order id has had one tracker only, the store maps the id to it,
\* and every register/get for the id returned that tracker.
C4_OneTrackerPerId ==
    \A i \in OrderIds :
        /\ Cardinality(stored[i]) <= 1
        /\ returned[i] \subseteq stored[i]
        /\ (i \in DOMAIN orders <=> stored[i] # {})
        /\ (i \in DOMAIN orders => stored[i] = {orders[i]} /\ heap[orders[i]].order_id = i)

\* C4 witness: the event created the tracker before the cycle registered the
\* id, and the id has been registered twice since.
C4_Witness ==
    /\ firstBy = "event"
    /\ regs = 2
    /\ returned[ObsId] = {orders[ObsId]}

\* C5: applying again the terminal payload that was applied last for an order
\* leaves its tracker (fields, signal flag and signal count) as it was.
C5_TerminalEventIdempotent ==
    [][(obsRepeat' /\ obsLast' = obsLast /\ ObsId \in DOMAIN orders
        /\ obsTick' # obsTick)
          => (orders'[ObsId] = orders[ObsId]
              /\ heap'[orders'[ObsId]] = heap[orders[ObsId]])]_vars

\* C5 witness: a terminal payload has been applied twice in a row to a tracker.
C5_Witness ==
    /\ obsRepeat
    /\ ObsId \in DOMAIN orders
    /\ is_terminal(heap[orders[ObsId]])

(***************************************************************************)
(* Claims about the Stream Cache and the cycle's precheck.                 *)
(***************************************************************************)

\* C6: once the subscriber has finished a mark-price update, the cache holds
\* the price and the timestamp of the stored update with the largest event
\* time, whatever order the updates were delivered in.
C6_CacheKeepsLatestEventTime ==
    (wsPc = "idle" /\ gotMark) =>
        (last_mark_ts = markMaxTs /\ mark_price = markMaxVal)

\* C7: a cycle that ended while the cache lacked a mark price, a mark
\* timestamp or a closed candle all along returned with state
\* skipped(ws_priming), made no advisory call and sent no order; and a cycle
\* is past the precheck only after a mark update and a closed candle of
\* the configured symbol were received.
C7_PrimingCycleSkips ==
    /\ (cycleEnd # "none" /\ lacking) =>
          /\ cycleEnd = "returned"
          /\ traderState = "skipped"
          /\ traderReason = "ws_priming"
          /\ advCalls = 0
          /\ ordersSent = 0
    /\ cPc \in {"advice", "account", "trade"} => (gotMark /\ gotKline)

(***************************************************************************)
(* Claims about the trigger loop.                                          *)
(***************************************************************************)

\* C8: at most one trading cycle is in progress at any time, and one is in
\* progress exactly while the loop thread is inside the callback, so no
\* cycle is started before the previous one has returned or raised.
C8_AtMostOneCycle ==
    /\ inCycle <= 1
    /\ inCycle = 1 <=> lPc = "cycle"

C8_Witness == inCycle = 1 /\ nStarts = 2 /\ evt_q # <<>>

\* C9: in kline and event mode a cycle starts at least `cooldown` seconds
\* after the previous start, an event taken from the queue less than
\* `cooldown` seconds after the last run starts no cycle, and in event mode a
\* mark event of the configured symbol is recorded by the detector and
\* counted whether or not the cooldown holds it back.
C9_CooldownBetweenStarts ==
    [][(trigger \in {"kline", "event"} => (
        /\ (nStarts' = nStarts + 1 /\ lastStart # NoneNum)
               => now - lastStart >= cooldown
        /\ (evt_q # <<>> /\ evt_q' = Tail(evt_q) /\ now - last_run < cooldown)
               => (nStarts' = nStarts /\ inCycle' = 0)
        /\ (/\ trigger = "event"
            /\ evt_q # <<>>
            /\ evt_q' = Tail(evt_q)
            /\ Head(evt_q).type = "mark"
            /\ Head(evt_q).payload.s = SYMBOL
            /\ Head(evt_q).payload.p # NoneNum)
               => /\ mp_hist' # <<>>
                  /\ mp_hist'[Len(mp_hist')] =
                        <<Head(evt_q).payload.E \div 1000, Head(evt_q).payload.p>>
                  /\ (mark_cnt' = mark_cnt + 1 \/ now - last_stat >= StatPeriod)
    ))]_vars

\* Two spikes of 1% 3 s apart under an 8 s cooldown: the first started the
\* only cycle, the second was taken from the queue and recorded.
C9_Witness ==
    /\ trigger = "event"
    /\ cooldown = 8
    /\ nStarts = 1
    /\ inCycle = 0
    /\ evt_q = <<>>
    /\ mp_hist = <<<<lastStart, 100>>, <<lastStart, 101>>, <<lastStart + 3, 101>>>>

C11_NoCycleAfterStop ==
    /\ stopEv ~> (lPc = "stopped" /\ wsStopAsked /\ svcState = "stopped")
    /\ [](stopEv => nStarts = startsAtStop)

\* C11, amended: once the stop event is set the loop eventually leaves, asks
\* the subscriber to close and publishes state stopped; it starts no cycle
\* once it has seen the event at its while test, and before that at most
\* one, from the iteration that was under way when the event was set.
C11_StopLeavesLoop ==
    /\ stopEv ~> (lPc = "stopped" /\ wsStopAsked /\ svcState = "stopped")
    /\ [](stopEv => nStarts <= startsAtStop + 1)
    /\ [](lPc \in {"cleanup", "stopped"} => (stopEv /\ inCycle = 0))
    /\ [](lPc = "stopped" => (wsStopAsked /\ svcState = "stopped"))
    /\ [][(lPc \in {"cleanup", "stopped"} => nStarts' = nStarts)]_vars

\* The loop has stopped after a cycle that was started after the signal.
C11_Witness ==
    /\ lPc = "stopped" /\ wsStopAsked /\ svcState = "stopped"
    /\ nStarts = startsAtStop + 1

\* C12: an emit on a full queue leaves the queue as it is and adds one to the
\* drop counter; an emit on a queue with room appends the event at the tail;
\* the callback can always complete its emit; the depth never exceeds the
\* capacity.
C12_FullQueueDropsNewest ==
    /\ [](Len(evt_q) <= QueueMax)
    /\ []((lPc # "stopped" /\ ev_count + ev_drop < MaxEmits)
            => ENABLED (\E m \in LoopKlineMsgs : EmitKline(m)))
    /\ [][(ev_count' + ev_drop' # ev_count + ev_drop =>
             IF Len(evt_q) = QueueMax
             THEN /\ evt_q' = evt_q
                  /\ ev_drop' = ev_drop + 1
                  /\ ev_count' = ev_count
             ELSE /\ Len(evt_q') = Len(evt_q) + 1
                  /\ SubSeq(evt_q', 1, Len(evt_q)) = evt_q
                  /\ ev_count' = ev_count + 1
                  /\ ev_drop' = ev_drop)]_vars

\* An event has been dropped on a full queue holding two different events.
C12_Witness ==
    /\ ev_drop = 1
    /\ Len(evt_q) = QueueMax
    /\ evt_q[1] # evt_q[QueueMax]

\* The confidence of the cycle's advice lies strictly between 0 and the
\* clamped threshold.
GatedConfidence ==
    /\ advice.got
    /\ advice.confidence # NoneNum
    /\ 0 < advice.confidence
    /\ advice.confidence < Max(0, IF aiConfEnv < 10 THEN aiConfEnv ELSE 10)

CycleOver == cPc = "idle" /\ cycleEnd # "none"

LowConfidenceSkip == traderState = "skipped" /\ traderReason = "low_confidence"

C14_FlatOnlyCloses ==
    advice.decision = "flat" =>
        /\ \A i \in DOMAIN sent :
            /\ sent[i].kind = "flat_exit"
            /\ sent[i].type = "MARKET"
            /\ sent[i].ro
            /\ acct[ClosesSide(sent[i].side)] > 0
            /\ sent[i].qty = acct[ClosesSide(sent[i].side)]
        /\ \A i, j \in DOMAIN sent : sent[i].side = sent[j].side => i = j
        /\ ordersSent = Len(sent)

C14_Witness ==
    /\ CycleOver /\ traderState = "flat" /\ advice.decision = "flat"
    /\ Len(sent) = 2
    /\ sent[1].side = "SELL" /\ sent[2].side = "BUY"
    /\ sent[1].resp = "NEW"

\* A reduce-only order of the symbol is still open at the exchange.
ReduceOnlyOpen == \E i \in DOMAIN exOrders : exOrders[i].ro /\ exOrders[i].status = "NEW"

\* C15: in one-way mode, outside dry-run, a cycle with decision flat that
\* ended with status flat leaves a total position of 0 and no open
\* reduce-only order.
C15_FlatStatusMeansFlat ==
    (CycleOver /\ traderState = "flat" /\ advice.decision = "flat" /\ ~dualSide /\ ~dryRun)
        => (exPos.long + exPos.short = 0 /\ ~ReduceOnlyOpen)

\* Position of the first event of the trace that satisfies P, 0 if none.
FirstEv(P(_)) ==
    IF \E i \in DOMAIN trace : P(trace[i])
    THEN CHOOSE i \in DOMAIN trace : P(trace[i]) /\ \A j \in 1..(i - 1) : ~P(trace[j])
    ELSE 0

IsEntryOrder(e) == e.ev = "order" /\ e.kind = "entry"
IsCloseOrder(e) == e.ev = "order" /\ e.kind = "hedge_close"
IsCloseTerminal(e) ==
    /\ e.ev \in {"ws_confirm", "poll"} /\ e.kind = "hedge_close"
    /\ e.st \in TERMINAL_STATUSES
IsCloseCleanup(e) == e.ev = "cleanup" /\ e.kind = "close_cleanup"

\* C16: with decision long or short and an opposite position of quantity
\* q > 0 in the account snapshot, the first order is a reduce-only market
\* order for q in the direction that closes the opposite position, and the
\* entry is submitted only after that order was seen terminal and the
\* cleanup has run.
C16_CloseBeforeEntry ==
    (advice.decision \in {"long", "short"} /\ ~dryRun /\ sent # <<>>
        /\ acct[OtherSide(advice.decision)] > 0) =>
        /\ sent[1].kind = "hedge_close"
        /\ sent[1].type = "MARKET"
        /\ sent[1].ro
        /\ sent[1].qty = acct[OtherSide(advice.decision)]
        /\ ClosesSide(sent[1].side) = OtherSide(advice.decision)
        /\ FirstEv(IsEntryOrder) > 0 =>
            /\ 0 < FirstEv(IsCloseOrder)
            /\ FirstEv(IsCloseOrder) < FirstEv(IsCloseTerminal)
            /\ FirstEv(IsCloseTerminal) < FirstEv(IsCloseCleanup)
            /\ FirstEv(IsCloseCleanup) < FirstEv(IsEntryOrder)

\* C17: the store the subscriber updates is the store the cycle registers
\* in, so every order the cycle registered and the exchange has ended is
\* terminal in the subscriber's store too, and a WebSocket wait never times
\* out on an order that had already ended at the exchange.
C17_UserEventReleasesWait ==
    /\ \A oid \in DOMAIN cyStore :
        exOrders[oid].status \in TERMINAL_STATUSES =>
            /\ oid \in DOMAIN wsStore
            /\ wsStore[oid].status = exOrders[oid].status
    /\ \A i \in DOMAIN trace :
        trace[i].ev = "ws_timeout" => trace[i].st \notin TERMINAL_STATUSES

ProtectiveKinds == {"stop_loss", "take_profit", "trailing_stop"}

IsEntryTerminal(e) ==
    /\ e.ev \in {"ws_confirm", "poll"} /\ e.kind = "entry"
    /\ e.st \in TERMINAL_STATUSES

\* The executed quantity of the cycle's entry order at the exchange.
EntryExecuted ==
    IF \E i \in DOMAIN sent : sent[i].kind = "entry" /\ sent[i].oid # 0
    THEN exOrders[sent[CHOOSE i \in DOMAIN sent : sent[i].kind = "entry"].oid].executed
    ELSE 0

\* The protective orders an advice asks for when f units were filled.
WantedStop(a, f) ==
    IF a.sl # NoneNum /\ a.sl # 0
    THEN <<[kind |-> "stop_loss", type |-> "STOP_MARKET", qty |-> f]>> ELSE <<>>

WantedTakeProfits(a, f) ==
    LET lv == SelectSeq(a.tps, LAMBDA tp : tp.size_pct > 0)
    IN  [i \in 1..Len(lv) |->
            [kind |-> "take_profit", type |-> "LIMIT",
             qty |-> RoundDiv(f * lv[i].size_pct, 100 * StepSize) * StepSize]]

WantedTrailing(a, f) ==
    IF a.trail THEN <<[kind |-> "trailing_stop", type |-> TrailingType, qty |-> f]>>
    ELSE <<>>

WantedProtection(a, f) == WantedStop(a, f) \o WantedTakeProfits(a, f) \o WantedTrailing(a, f)

\* The protective orders emitted so far, in order.
EmittedProtection ==
    LET ps == SelectSeq(sent, LAMBDA o : o.kind \in ProtectiveKinds)
    IN  [i \in 1..Len(ps) |-> [kind |-> ps[i].kind, type |-> ps[i].type, qty |-> ps[i].qty]]

IsPrefix(s, t) == Len(s) <= Len(t) /\ SubSeq(t, 1, Len(s)) = s

IsEntryPoll(e) == e.ev = "poll" /\ e.kind = "entry"
IsEntryWsTimeout(e) == e.ev = "ws_timeout" /\ e.kind = "entry"

\* C19: for the entry order the REST poll starts only after the WebSocket
\* wait timed out, no poll follows a terminal response, at most MaxPolls
\* polls are made, and after a terminal response the tracker of the order
\* in the cycle's store carries the status and executed quantity of the
\* response.
C19_PollUpdatesTracker ==
    /\ FirstEv(IsEntryPoll) > 0 =>
            (0 < FirstEv(IsEntryWsTimeout) /\ FirstEv(IsEntryWsTimeout) < FirstEv(IsEntryPoll))
    /\ \A i \in DOMAIN trace :
        IsEntryPoll(trace[i]) => (i > FirstEv(IsEntryTerminal) => FirstEv(IsEntryTerminal) = 0)
    /\ Len(SelectSeq(trace, IsEntryPoll)) <= MaxPolls
    /\ \A i \in DOMAIN trace :
        (IsEntryPoll(trace[i]) /\ trace[i].st \in TERMINAL_STATUSES) =>
            /\ cyStore[trace[i].oid].status = trace[i].st
            /\ cyStore[trace[i].oid].executed_qty = exOrders[trace[i].oid].executed

\* C20: outside dry-run a stop-loss, take-profit or trailing stop is emitted
\* only if the entry order has a nonzero executed quantity.
C20_NoProtectionWithoutFill ==
    ~dryRun =>
        \A i \in DOMAIN sent : sent[i].kind \in ProtectiveKinds => EntryExecuted > 0

\* C21: a cycle whose entry order was refused by the exchange at submission
\* ends with the state error.
C21_RejectedEntryEndsInError ==
    (CycleOver /\ \E i \in DOMAIN sent : sent[i].kind = "entry" /\ sent[i].resp = "ERROR")
        => traderState = "error"

TerminalStates == {"completed", "flat", "skipped", "invalid", "error"}

\* C22: when a cycle is over, whether it returned or raised, the published
\* state is one of completed, flat, skipped, invalid, error.
C22_TerminalStateAtCycleEnd == CycleOver => traderState \in TerminalStates

\* C23: a cycle that ended by raising an exception has published the state
\* error before the exception reached the trigger loop.
C23_RaisedCycleReportsError ==
    (CycleOver /\ cycleEnd = "raised") => traderState = "error"

\* C24: once the input for the advisor is built, its mark price is the mark
\* price read from the cache and its last close is the close of the candle
\* read from the cache.
C24_AdvisorSeesCachedMarket ==
    cPc = "account" =>
        /\ src.mark_price = rdMark
        /\ src.last_close = LastClose(rdKbar)

IsAccountRead(e) == e.ev = "account"

\* The advisor answered with a decision other than long, short, flat.
InvalidAdvice == advice.got /\ advice.decision \notin {"long", "short", "flat"}

WaitedKinds == {"flat_exit", "hedge_close", "entry"}

\* In a dry run: no order is created or cancelled at the exchange, no
\* leverage change is requested, nothing is registered, and every order is
\* answered DRY_RUN without an order id.
DryRunStaysLocal ==
    /\ \A i \in DOMAIN exOrders : exOrders[i] = StaleStop
    /\ \A i \in DOMAIN trace : trace[i].ev # "leverage"
    /\ cyStore = EmptyDict
    /\ \A i \in DOMAIN sent : sent[i].resp = "DRY_RUN" /\ sent[i].oid = 0

\* In a dry run the protective orders are those of the requested quantity.
DryRunProtection ==
    advice.decision \in {"long", "short"} =>
        /\ filled_qty \in {0, qty}
        /\ IsPrefix(EmittedProtection, WantedProtection(advice, qty))
        /\ (CycleOver /\ cycleEnd = "returned" /\ traderState = "completed") =>
                EmittedProtection = WantedProtection(advice, qty)

\* C26 as stated: in a dry run nothing reaches the exchange, every order
\* carries a simulated fill of its requested quantity, and the protective
\* orders are sized from the requested entry quantity.
C26_DryRunEveryOrderFilled ==
    dryRun =>
        /\ DryRunStaysLocal
        /\ DryRunProtection
        /\ \A i \in DOMAIN sent : sent[i].fill = sent[i].qty

\* C26: in a dry run nothing reaches the exchange, every close and entry
\* order carries a simulated fill of its requested quantity, a protective
\* order carries no fill, and the protective orders are sized from the
\* requested entry quantity.
C26_DryRunStaysLocal ==
    dryRun =>
        /\ DryRunStaysLocal
        /\ DryRunProtection
        /\ \A i \in DOMAIN sent :
            sent[i].fill = IF sent[i].kind \in WaitedKinds THEN sent[i].qty ELSE NoneNum

C26_Witness ==
    /\ dryRun /\ CycleOver /\ traderState = "completed"
    /\ advice.leverage = 5
    /\ exOrders = <<StaleStop>>
    /\ Len(EmittedProtection) = 4
    /\ \A i \in DOMAIN sent : sent[i].kind = "entry" => sent[i].fill = 10

\* The position an order opens or reduces.
PositionOf(o) ==
    IF o.kind = "flat_exit" THEN ClosesSide(o.side)
    ELSE IF o.kind = "hedge_close" THEN OtherSide(advice.decision)
    ELSE advice.decision

\* Every emitted order is stamped according to the mode the cycle detected.
StampedByDetectedMode ==
    \A i \in DOMAIN sent :
        sent[i].ps = IF hedge THEN pos_side_map(PositionOf(sent[i])) ELSE NoneStr

\* C30: in hedge mode every emitted order carries the positionSide of the
\* position it opens or reduces; in one-way mode none carries a positionSide.
C30_PositionSideByMode ==
    \A i \in DOMAIN sent :
        sent[i].ps = IF dualSide THEN pos_side_map(PositionOf(sent[i])) ELSE NoneStr

\* C29: once the cycle has taken its snapshot of the cache, the snapshot is a
\* record holding the mark price, its time and the last candle the cache
\* held together at that moment.
C29_SnapshotIsRecord ==
    cPc = "read_kbar" =>
        /\ DOMAIN snap = {"mark_price", "last_mark_ts", "last_kline_close"}
        /\ snap.mark_price = rdMark

RECURSIVE FoldOps(_)
\* The status file after the calls of a sequence made one after another.
FoldOps(calls) ==
    IF calls = <<>> THEN EmptyStatus
    ELSE ApplyOp(FoldOps(SubSeq(calls, 1, Len(calls) - 1)), calls[Len(calls)])

C28_RollingListsCapped ==
    /\ Len(histList["events"]) <= 200 /\ Len(histList["orders"]) <= 200
    /\ Len(histList["ai_history"]) <= 300 /\ Len(histList["close_history"]) <= 500
    /\ \A k \in HistKinds :
        LET n == IF k = histKind THEN histNext ELSE 0
            len == IF n > HistLimit(k) THEN HistLimit(k) ELSE n
        IN  histList[k] = [i \in 1..len |-> n - len + i]

C28_Witness ==
    /\ histKind = "close_history" /\ histNext = 502
    /\ Len(histList["close_history"]) = 500
    /\ histList["close_history"][1] = 3 /\ histList["close_history"][500] = 502

\* The condition of the claim on order i of the call: a protective type,
\* reduce-only or close-position, and its position zero in the snapshot.
StaleProtection(i) ==
    LET od == csIn.orders[i]
    IN  /\ od.type \in {"STOP", "TAKE_PROFIT", "STOP_MARKET", "TAKE_PROFIT_MARKET",
                        "TRAILING_STOP_MARKET", "LIMIT"}
        /\ od.reduceOnly \in {"True", "'true'"} \/ od.closePosition \in {"True", "'true'"}
        /\ IF csIn.hedge_mode
           THEN \/ od.positionSide = "LONG" /\ csIn.long_qty = 0
                \/ od.positionSide = "SHORT" /\ csIn.short_qty = 0
           ELSE csIn.long_qty + csIn.short_qty = 0

\* Apart from its status every open order is as it was.
OrdersOtherwiseUntouched ==
    /\ DOMAIN csOrders = DOMAIN csIn.orders
    /\ \A i \in DOMAIN csOrders : [csOrders[i] EXCEPT !.status = "NEW"] = csIn.orders[i]

\* C31 as stated: after the call an open order is cancelled if and only if
\* it is a stale protective order; the others are untouched.
C31_CancelsIffStale ==
    csOut.pc = "done" =>
        /\ OrdersOtherwiseUntouched
        /\ \A i \in DOMAIN csOrders :
            csOrders[i].status = "CANCELED" <=> StaleProtection(i)

\* C31: after the call an open order is cancelled if and only if it is a
\* stale protective order, the run is not a dry run, the open-order query
\* answered and the exchange accepted the cancel request; in a dry run the
\* stale protective orders are reported and none is cancelled; the others
\* are untouched.
C31_CancelsStaleWhenLive ==
    csOut.pc = "done" =>
        /\ OrdersOtherwiseUntouched
        /\ \A i \in DOMAIN csOrders :
            /\ csOrders[i].status = "CANCELED" <=>
                    (StaleProtection(i) /\ ~csIn.dry_run /\ csOut.listed
                        /\ i \in csOut.accepted)
            /\ (\E j \in DOMAIN csOut.canceled : csOut.canceled[j] = i) <=>
                    (StaleProtection(i) /\ csOut.listed
                        /\ (csIn.dry_run \/ i \in csOut.accepted))

C31_Witness ==
    /\ csOut.pc = "done" /\ ~csIn.dry_run /\ csIn.hedge_mode
    /\ csIn.long_qty = 10 /\ csIn.short_qty = 0
    /\ csIn.orders[1].type = "TAKE_PROFIT_MARKET" /\ csIn.orders[1].positionSide = "SHORT"
    /\ csIn.orders[1].reduceOnly = "False" /\ csIn.orders[1].closePosition = "'true'"
    /\ csOrders[1].status = "CANCELED"
    /\ csIn.orders[2].type = "STOP_MARKET" /\ csOrders[2].status = "NEW"

(***************************************************************************)
(* Claims about the volatility detector.                                   *)
(***************************************************************************)

\* The samples of `samples` no older than mp_window_sec at time ts.
InWindow(samples, ts) == SelectSeq(samples, LAMBDA e : e[1] >= ts - mp_window_sec)

\* C32: on_mark keeps the samples of the last mp_window_sec seconds, the new
\* one included, and fires if and only if at least two remain, the oldest
\* remaining price p0 is nonzero and |price/p0 - 1| * 100 >= mp_delta_pct;
\* with fewer than two remaining samples it does not fire.
C32_MarkFiresIffMoved ==
    dLast.kind = "mark" =>
        LET p == SafeFloat(GetNum(dLast.payload, "p"))
            win == InWindow(Append(dLast.pre, <<dLast.ts, p>>), dLast.ts)
        IN  IF p = NoneNum THEN ~dLast.fired /\ dMp = dLast.pre
            ELSE /\ dMp = win
                 /\ dLast.fired <=>
                        /\ Len(win) >= 2
                        /\ win[1][2] # 0
                        /\ Abs(p - win[1][2]) * 10000 >= mp_delta_pct * Abs(win[1][2])

\* A call that dropped an old sample and fired against the oldest one left.
C32_Witness ==
    /\ dLast.kind = "mark"
    /\ dLast.fired
    /\ Len(dMp) = 2
    /\ Len(dLast.pre) = 2


\* C33: the volume sub-rule fires only when the volumes recorded before the
\* candle have a mean above zero and the candle's volume is at least
\* vol_mult times that mean; the candle's own volume is recorded after the
\* evaluation, so it is the newest entry of the history and no part of its
\* own baseline, and an empty or all-zero baseline never fires.
C33_VolumeRuleNeedsBaseline ==
    dLast.kind = "kline" =>
        /\ dLast.trig_vol =>
              /\ dLast.judged
              /\ dLast.pre # <<>>
              /\ SumSeq(dLast.pre) > 0
              /\ dLast.vol * Len(dLast.pre) >= vol_mult * SumSeq(dLast.pre)
        /\ (dLast.judged /\ dLast.vol # NoneNum) =>
              /\ dVol # <<>>
              /\ dVol[Len(dVol)] = dLast.vol
              /\ dVolAll[Len(dVolAll)] = dLast.vol
        /\ (dLast.pre = <<>> \/ SumSeq(dLast.pre) <= 0) => ~dLast.trig_vol

\* A flat candle that fires on its volume alone, at exactly vol_mult times
\* the mean of the volumes recorded before it.
C33_Witness ==
    /\ dLast.kind = "kline"
    /\ dLast.trig_vol
    /\ dLast.fired
    /\ dLast.payload.k.h = dLast.payload.k.l
    /\ dLast.vol * Len(dLast.pre) = vol_mult * SumSeq(dLast.pre)
    /\ Len(dLast.pre) >= 2

\* The last n entries of s.
LastN(s, n) == SubSeq(s, Len(s) - Min(Len(s), n) + 1, Len(s))

C35_KlineModeStartsOnClosedMinute ==
    [][(trigger = "kline" /\ nStarts' # nStarts) =>
          /\ evt_q # <<>>
          /\ evt_q' = Tail(evt_q)
          /\ Head(evt_q).type = "kline"
          /\ UpperSym(GetStr(Head(evt_q).payload, "s")) = UpperSym(SYMBOL)
          /\ "k" \in DOMAIN Head(evt_q).payload
          /\ GetStr(Head(evt_q).payload.k, "i") = "1m"
          /\ GetStr(Head(evt_q).payload.k, "x") = "True"
          /\ now - last_run >= cooldown
          /\ nStarts' = nStarts + 1]_vars

\* Three events were taken from the queue in candle-close mode and exactly
\* one of them started a cycle, which is running.
C35_Witness ==
    /\ trigger = "kline"
    /\ ev_count = 3
    /\ evt_q = <<>>
    /\ nStarts = 1
    /\ lPc = "cycle"
    /\ frLast.cb = "kline"

\* The symbol a frame is about: the pair of a continuous kline, else the
\* symbol of the frame or of its candle.
FrameSymbol(m) ==
    IF GetStr(m, "e") = "continuous_kline" THEN GetStr(m, "ps")
    ELSE IF GetStr(m, "s") # NoneStr THEN GetStr(m, "s")
    ELSE IF "k" \in DOMAIN m THEN GetStr(m.k, "s") ELSE NoneStr

\* A frame of another symbol, or of a kind that is no mark price and no kline.
Foreign(m) ==
    \/ UpperSym(FrameSymbol(m)) # UpperSym(SYMBOL)
    \/ GetStr(m, "e") \notin {"markPriceUpdate", "kline", "continuous_kline"}

CacheSlots == <<mark_price, last_mark_ts, last_kline_close>>
DetectorState == <<mp_hist, vol_hist, mark_cnt, kline_cnt>>

\* C36: a callback called with a frame of another symbol or of an unknown
\* kind leaves the cache as it is; the loop, taking such a frame from the
\* queue, leaves the cache and the detector as they are, starts no cycle and
\* goes back to the while test without entering the error handler.
C36_ForeignFramesDropped ==
    [][/\ (frLast' # frLast /\ Foreign(frLast'.msg)) =>
             /\ UNCHANGED CacheSlots
             /\ UNCHANGED DetectorState
             /\ UNCHANGED <<nStarts, inCycle, lPc, failStreak>>
       /\ (evt_q # <<>> /\ evt_q' = Tail(evt_q) /\ Foreign(Head(evt_q).payload)) =>
             /\ UNCHANGED CacheSlots
             /\ UNCHANGED DetectorState
             /\ UNCHANGED <<nStarts, inCycle, failStreak>>
             /\ lPc' = "top"]_vars

\* In event mode a kline of another symbol went through the callback and
\* the loop, after a mark price of the configured symbol had been cached
\* and shown to the detector.
C36_Witness ==
    /\ trigger = "event"
    /\ frLast.cb = "kline"
    /\ FrameSymbol(frLast.msg) = "BTCUSDT"
    /\ evt_q = <<>>
    /\ ev_count = 2
    /\ mark_cnt = 1
    /\ kline_cnt = 0
    /\ mark_price = 2000
    /\ last_kline_close = EmptyDict
    /\ nStarts = 0


(***************************************************************************)
(* Claims about the quantity of an entry.                                  *)
(***************************************************************************)

\* Advice to go long or short whose resolved and snapped quantity is <= 0.
ZeroQtyAdvice ==
    /\ advice.got
    /\ advice.decision \in {"long", "short"}
    /\ ResolveQty(advice, src) <= 0

\* The cycle got as far as the quantity: the account was read for the
\* reconciliation and the confidence gate let the advice pass.
QtyResolved ==
    /\ \E i \in DOMAIN trace : trace[i].ev = "account" /\ trace[i].kind = "reconcile"
    /\ ~LowConfidence(advice.confidence, AiConfThr(aiConfEnv))

C38_TerminalStatusSticks ==
    [][/\ \A i \in DOMAIN orders :
             is_terminal(heap[orders[i]]) => is_terminal(heap'[orders'[i]])
       /\ \A r \in DOMAIN heap' : heap'[r].event => is_terminal(heap'[r])]_vars


(***************************************************************************)
(* Claims about the status file.                                           *)
(***************************************************************************)

StartFailed == wsStart \in {"ctor_raises", "start_raises"}

\* Timer mode, no detector, and nothing was ever taken from the queue:
\* every event that was put is still in it.
TimerFallback ==
    /\ trigger = "timer"
    /\ ~detector
    /\ Len(evt_q) = ev_count
    /\ mark_cnt = 0 /\ kline_cnt = 0

\* C40 as stated: after a failed start the loop runs in timer mode, has no
\* detector, never reads the queue, and the finally block calls stop on no
\* subscriber.
C40_FallbackNeverStops ==
    StartFailed => (TimerFallback /\ ~wsStopAsked)

\* C40: after a failed start the loop runs in timer mode, has no detector
\* and never reads the queue; the finally block calls stop on the subscriber
\* exactly when the subscriber had been constructed, that is when start()
\* raised and not the constructor.
C40_FallbackStopsConstructed ==
    StartFailed =>
        /\ TimerFallback
        /\ lPc = "stopped" => (wsStopAsked <=> wsStart = "start_raises")
        /\ lPc # "stopped" => ~wsStopAsked

\* LOOP_TRIGGER was not timer, start() raised, a cycle ran on the timer,
\* events piled up unread, and the service stopped.
C40_Witness ==
    /\ wsStart = "start_raises"
    /\ lPc = "stopped"
    /\ svcState = "stopped"
    /\ nStarts >= 1
    /\ evt_q # <<>>
    /\ wsStopAsked

====
